---- MODULE Spec2Model ----
(***************************************************************************)
(* State-machine model of the OCA backend request paths:                   *)
(*   POST /api/chat   (routes/chat.js, tutoring mode, streamed text)       *)
(*   POST /api/search (routes/search.js, info-access mode, JSON)           *)
(* together with RAGService.retrieveRelevantChunks, LLMService.chat, the   *)
(* global Express error handler of app.js and the sessions / interactions  *)
(* tables of the Supabase schema.                                          *)
(*                                                                         *)
(* One action is one resumption of a request handler: the datastore / LLM  *)
(* call the handler is awaiting resolves and the handler runs on to its    *)
(* next await.  Un-awaited ("fire and forget") datastore calls are kept in *)
(* archiveQ / touchQ and land, fail or stay pending independently.         *)
(***************************************************************************)
EXTENDS Integers, Sequences, FiniteSets, TLC

\* ------------------------------------------------------------------ bounds
MaxReqs   == 2    \* requests the environment sends in one behaviour
MaxFrags  == 2    \* fragments the LLM stream yields at most per request
MaxSeed   == 1    \* interactions already archived for session "s1" at start
MaxStored == 11   \* the same, where the history query is examined on its own
MaxChunks == 1    \* chunks a similarity query returns at most
MaxDocs   == 4    \* rows of document_chunks a similarity query runs over
MaxTopK   == 5    \* largest match_count a caller passes
MaxText   == 6    \* length of the texts every chunking is examined for
MaxChunkSize == 4 \* largest chunk size examined with those texts
MaxPushed == 8    \* chunks a chunking loop is followed for
MaxBatch  == 3    \* texts in one generateEmbeddings call
MaxFiles  == 2    \* documents of one bulk ingestion
MaxRuns   == 2    \* bulk ingestions into the same store
MaxDocText == 2   \* length of a document's text in a bulk ingestion
IngestChunkSize == 2  \* chunk size of a bulk ingestion
IngestOverlap == 1    \* overlap of a bulk ingestion

\* ------------------------------------------------------- program constants
HistoryLimit == 10   \* chat.js:136  .limit(10)
DefaultLimit == 50   \* interactions.js:17  limit = 50
CHUNK_SIZE == 800    \* chunky.js:20
CHUNK_OVERLAP == 150 \* chunky.js:21

Reqs == 1 .. MaxReqs

\* the falsy value of an absent / empty JSON field
Absent == ""
Falsy(x) == x = Absent

\* message / query text request r may carry
MsgOf(r) == <<"q", r>>
NoMsg == <<>>

\* a route that forgets to validate the required field
MissingNever(m) == FALSE

\* !message / !query: the required field is absent or empty
Missing(m) == m = NoMsg

\* uuidv4(): a fresh id, distinct from every id a client can already hold
uuidv4(r) == IF r = 1 THEN "g1" ELSE IF r = 2 THEN "g2" ELSE "g3"

\* new Date() as read by the handler of request r: requests are numbered in
\* arrival order, rows present at start carry 0
Date(r) == r

\* fragment j of the LLM output of request r
Frag(r, j) == ToString(100 * r + j)

TextPlain == <<"Content-Type", "text/plain; charset=utf-8">>
AppJson == <<"Content-Type", "application/json; charset=utf-8">>

NoJson == [kind |-> "none", error |-> "", summary |-> <<>>, sources |-> <<>>, data |-> <<>>]
ErrJson(msg) ==
  [kind |-> "error", error |-> msg, summary |-> <<>>, sources |-> <<>>, data |-> <<>>]

VARIABLES supabase, sessions, interactions, req, archiveQ, touchQ, log, budget,
          document_chunks, rpc, chunker, batch, ingest

vars == <<supabase, sessions, interactions, req, archiveQ, touchQ, log, budget,
          document_chunks, rpc, chunker, batch, ingest>>

\* the document store, a match_documents call, a chunkText call, a
\* generateEmbeddings call and a bulk ingestion: none of the request handlers
\* below writes them
ragVars == <<document_chunks, rpc, chunker, batch, ingest>>

IdleRpc == [pc |-> "idle", match_threshold |-> 0, match_count |-> 0, data |-> <<>>]

IdleChunker ==
  [ pc |-> "idle", impl |-> "", text |-> <<>>, chunkSize |-> 0, overlap |-> 0,
    start |-> 0, chunks |-> <<>> ]

IdleBatch == [pc |-> "idle", texts |-> <<>>, calls |-> <<>>, all |-> "none", values |-> <<>>,
              result |-> <<>>]

IdleObj == [pc |-> "listed", attempts |-> 0, text |-> <<>>, chunks |-> <<>>, idx |-> 0,
            embedding |-> <<>>, stored |-> 0]

NoResults == [processed |-> 0, failed |-> 0, totalChunks |-> 0, errors |-> <<>>]

IdleIngest == [pc |-> "idle", impl |-> "", files |-> <<>>, objs |-> <<>>, i |-> 0,
               results |-> NoResults, runs |-> 0]

NoIngestion == batch = IdleBatch /\ ingest = IdleIngest

IdleReq ==
  [ pc |-> "idle", endpoint |-> "", message |-> NoMsg, provided |-> Absent,
    param |-> Absent, body |-> {},
    sessionId |-> Absent, userId |-> "",
    prior |-> {}, history |-> <<>>, historyOk |-> FALSE,
    chunks |-> <<>>, messages |-> <<>>,
    fullResponse |-> <<>>,
    statusCode |-> 200, headers |-> {}, headersSent |-> FALSE, wireStatus |-> 0,
    stream |-> <<>>, json |-> NoJson, ended |-> FALSE, destroyed |-> FALSE,
    embedCalls |-> 0, rpcCalls |-> 0, llmCalls |-> 0, dbCalls |-> 0,
    retrievalFailed |-> FALSE, llmFailed |-> FALSE, checkError |-> FALSE,
    errNext |-> FALSE, jsonAfterHeaders |-> FALSE, archiveIssued |-> FALSE ]

\* ----------------------------------------------------------- pure helpers

\* the completed requests, as a newly arriving request finds them
Completed == {x \in Reqs : req[x].pc = "done"}

\* an interaction row archived before the behaviour starts (session "s1")
OldRow(i) ==
  [ student_id |-> "stu", session_id |-> "s1", mode |-> "tutoring",
    user_message |-> <<"old", i>>, assistant_response |-> <<ToString(i)>>,
    retrieved_chunk_ids |-> <<>>, timestamp |-> i ]

S1Row == [ id |-> "s1", student_id |-> "stu", mode |-> "tutoring",
           created_at |-> 0, last_activity |-> 0, context |-> "{}" ]

SessionExists(id) == \E s \in sessions : s.id = id

RECURSIVE Filter(_, _)
\* .eq('session_id', sid): the rows of a table that belong to session sid
Filter(rows, sid) ==
  IF rows = <<>> THEN <<>>
  ELSE IF Head(rows).session_id = sid
       THEN <<Head(rows)>> \o Filter(Tail(rows), sid)
       ELSE Filter(Tail(rows), sid)

RECURSIVE InsertAsc(_, _)
InsertAsc(row, sorted) ==
  IF sorted = <<>> THEN <<row>>
  ELSE IF row.timestamp < Head(sorted).timestamp
       THEN <<row>> \o sorted
       ELSE <<Head(sorted)>> \o InsertAsc(row, Tail(sorted))

RECURSIVE OrderAsc(_)
\* .order('timestamp', { ascending: true })
OrderAsc(rows) ==
  IF rows = <<>> THEN <<>>
  ELSE InsertAsc(rows[Len(rows)], OrderAsc(SubSeq(rows, 1, Len(rows) - 1)))

\* .limit(n): the first n rows of the ordered result
Limit(rows, n) == SubSeq(rows, 1, IF Len(rows) < n THEN Len(rows) ELSE n)

\* select('user_message, assistant_response')
Project(rows) ==
  [ i \in 1 .. Len(rows) |->
      [ user_message |-> rows[i].user_message,
        assistant_response |-> rows[i].assistant_response ] ]

\* the history query of chat.js: eq(session_id).order(timestamp asc).limit(10)
SelectHistory(rows, sid) == Project(Limit(OrderAsc(Filter(rows, sid)), HistoryLimit))

RECURSIVE FlatMapHistory(_)
\* history.flatMap(i => [{user, i.user_message}, {assistant, i.assistant_response}])
FlatMapHistory(h) ==
  IF h = <<>> THEN <<>>
  ELSE << [role |-> "user", content |-> Head(h).user_message],
          [role |-> "assistant", content |-> Head(h).assistant_response] >>
       \o FlatMapHistory(Tail(h))

Placeholder == <<"No specific course material found for this query.">>

\* a context that is left empty when nothing was retrieved
ContextNoPlaceholder(chunks) == <<"context">> \o chunks

\* chunks.map(tagged text).join('\n\n')  ||  placeholder
Context(chunks) == IF chunks = <<>> THEN Placeholder ELSE <<"context">> \o chunks

SystemPrompt(chunks) == [role |-> "system", content |-> Context(chunks)]

\* the current question placed ahead of the previous turns
BuildMessagesCurrentFirst(chunks, conversationHistory, message) ==
  <<SystemPrompt(chunks)>> \o <<[role |-> "user", content |-> message]>>
     \o conversationHistory

\* the messages array of chat.js
BuildMessages(chunks, conversationHistory, message) ==
  <<SystemPrompt(chunks)>> \o conversationHistory
     \o <<[role |-> "user", content |-> message]>>

\* a search prompt without the fallback branch
SearchPromptNoFallback(chunks) ==
  [role |-> "system", content |-> <<"context">> \o chunks]

\* the messages array of search.js: fallback prompt when there are no chunks
SearchPrompt(chunks) ==
  [role |-> "system",
   content |-> IF chunks = <<>> THEN <<"general knowledge">> ELSE <<"context">> \o chunks]

BuildSearchMessages(chunks, query) ==
  <<SearchPrompt(chunks), [role |-> "user", content |-> query]>>

\* what match_documents can hand back: up to MaxChunks chunk ids, ranked
RetrievalResults == { [i \in 1 .. n |-> <<"c", i>>] : n \in 0 .. MaxChunks }

\* an error handler that answers with the JSON body but leaves the status alone
ErrorHandlerKeepStatus(q, msg) ==
  IF q.headersSent
  THEN [q EXCEPT !.pc = "done", !.errNext = TRUE,
                 !.jsonAfterHeaders = TRUE, !.destroyed = TRUE]
  ELSE [q EXCEPT !.pc = "done", !.errNext = TRUE,
                 !.headers = {AppJson}, !.headersSent = TRUE, !.wireStatus = q.statusCode,
                 !.json = ErrJson(msg), !.ended = TRUE]

\* app.js global error handler: res.status(err.status || 500).json({error})
ErrorHandler(q, msg) ==
  IF q.headersSent
  THEN \* res.status() assigns statusCode, res.json() throws ERR_HTTP_HEADERS_SENT,
       \* Express' final handler then destroys the socket
       [q EXCEPT !.pc = "done", !.errNext = TRUE, !.statusCode = 500,
                 !.jsonAfterHeaders = TRUE, !.destroyed = TRUE]
  ELSE [q EXCEPT !.pc = "done", !.errNext = TRUE, !.statusCode = 500,
                 !.headers = {AppJson}, !.headersSent = TRUE, !.wireStatus = 500,
                 !.json = ErrJson(msg), !.ended = TRUE]

\* res.status(code).json({error: msg}) from a route
Reply(q, code, msg) ==
  [q EXCEPT !.pc = "done", !.statusCode = code, !.headers = {AppJson}, !.headersSent = TRUE,
            !.wireStatus = code, !.json = ErrJson(msg), !.ended = TRUE]

\* the row a request hands to interactions.insert
ArchiveRow(q, mode) ==
  [ student_id |-> q.userId, session_id |-> q.sessionId, mode |-> mode,
    user_message |-> q.message, assistant_response |-> q.fullResponse,
    retrieved_chunk_ids |-> q.chunks ]

\* ragService.retrieveRelevantChunks is entered: with a datastore the
\* embedding call is issued and awaited
EnterRetrieve(q) == [q EXCEPT !.pc = "retrieve", !.embedCalls = @ + 1]

\* chat.js 157-221: context, system prompt, messages, setHeader, llmService.chat
\* a handler that issues the LLM call before the message list is built
PromptAfterCall(q, chunks) ==
  [q EXCEPT !.pc = "llm", !.chunks = chunks,
            !.headers = IF q.endpoint = "chat" THEN {TextPlain} ELSE @,
            !.llmCalls = @ + 1]

PromptAndCall(q, chunks) ==
  [q EXCEPT !.pc = "llm", !.chunks = chunks,
            !.headers = IF q.endpoint = "chat" THEN {TextPlain} ELSE @,
            !.messages = IF q.endpoint = "chat"
                         THEN BuildMessages(chunks, FlatMapHistory(q.history), q.message)
                         ELSE BuildSearchMessages(chunks, q.message),
            !.llmCalls = @ + 1]

\* ------------------------------------------------------------------- Init

\* the store as the process finds it: session "s1" may exist and may already
\* hold n archived interactions (rows reference an existing session)
Store(n, s1) ==
  /\ supabase => (n > 0 => s1)
  /\ ~supabase => (n = 0 /\ ~s1)
  /\ interactions = [i \in 1 .. n |-> OldRow(i)]
  /\ sessions = IF s1 THEN {S1Row} ELSE {}

Fresh ==
  /\ req = [r \in Reqs |-> IdleReq]
  /\ archiveQ = {}
  /\ touchQ = {}
  /\ log = {}
  /\ document_chunks = <<>>
  /\ rpc = IdleRpc
  /\ chunker = IdleChunker
  /\ NoIngestion

Init ==
  /\ supabase \in BOOLEAN
  /\ \E n \in 0 .. MaxSeed, s1 \in BOOLEAN : Store(n, s1)
  /\ Fresh
  /\ budget = MaxReqs

\* one request against a session that may already hold a long conversation
InitHist ==
  /\ supabase \in BOOLEAN
  /\ \E n \in 0 .. MaxStored, s1 \in BOOLEAN : Store(n, s1)
  /\ Fresh
  /\ budget = 1

\* ---------------------------------------------------------------- actions

\* chat.js 58-81: body destructuring, validation, session id, first await
StartChat(r) ==
  /\ budget > 0
  /\ r = Cardinality({x \in Reqs : req[x].pc # "idle"}) + 1
  /\ req[r].pc = "idle"
  /\ \E m \in {NoMsg, MsgOf(r)}, sid \in {Absent, "s1"}, stu \in {Absent, "stu"} :
       LET q0 == [req[r] EXCEPT !.endpoint = "chat", !.message = m, !.provided = sid,
                                   !.prior = Completed]
           q1 == [q0 EXCEPT !.sessionId = IF Falsy(sid) THEN uuidv4(r) ELSE sid,
                            !.userId = IF Falsy(stu) THEN "anonymous" ELSE stu]
       IN req' = [req EXCEPT ![r] =
            IF Missing(m)
            THEN Reply(q0, 400, "Missing required field: message is required")
            ELSE IF supabase
                 THEN [q1 EXCEPT !.pc = "sessCheck", !.dbCalls = @ + 1]
                 ELSE PromptAndCall(q1, <<>>)]
  /\ budget' = budget - 1
  /\ UNCHANGED <<ragVars, supabase, sessions, interactions, archiveQ, touchQ, log>>

\* search.js 67-102: validation, 503 without datastore, session id, first await
StartSearch(r) ==
  /\ budget > 0
  /\ r = Cardinality({x \in Reqs : req[x].pc # "idle"}) + 1
  /\ req[r].pc = "idle"
  /\ \E m \in {NoMsg, MsgOf(r)}, sid \in {Absent, "s1"}, stu \in {Absent, "stu"} :
       LET q0 == [req[r] EXCEPT !.endpoint = "search", !.message = m, !.provided = sid,
                                   !.prior = Completed]
           q1 == [q0 EXCEPT !.sessionId = IF Falsy(sid) THEN uuidv4(r) ELSE sid,
                            !.userId = IF Falsy(stu) THEN "anonymous" ELSE stu]
       IN req' = [req EXCEPT ![r] =
            IF Missing(m)
            THEN Reply(q0, 400, "Missing required field: query is required")
            ELSE IF ~supabase
                 THEN Reply(q0, 503, "Course material search is not available until Supabase is configured.")
                 ELSE [q1 EXCEPT !.pc = "sessCheck", !.dbCalls = @ + 1]]
  /\ budget' = budget - 1
  /\ UNCHANGED <<ragVars, supabase, sessions, interactions, archiveQ, touchQ, log>>

ModeOf(q) == IF q.endpoint = "chat" THEN "tutoring" ELSE "info_access"

\* where a handler goes once the session block is over:
\* chat awaits the history query, search enters retrieveRelevantChunks
AfterSession(q) ==
  IF q.endpoint = "chat"
  THEN [q EXCEPT !.pc = "history", !.dbCalls = @ + 1]
  ELSE EnterRetrieve(q)

\* chat.js 84-120 / search.js 98-133: sessions.select('id').eq(id).single()
\* resolves; a missing row or a query error leads to the insert, an existing
\* row to the un-awaited last_activity update (checkError is the local of
\* that name: it lives until the session block is left)
SessionCheck(r) ==
  /\ req[r].pc = "sessCheck"
  /\ \E ok \in BOOLEAN :
       LET q == req[r]
           found == ok /\ SessionExists(q.sessionId)
       IN IF found
          THEN /\ touchQ' = touchQ \cup {[r |-> r, id |-> q.sessionId, at |-> Date(r)]}
               /\ req' = [req EXCEPT ![r] = AfterSession([q EXCEPT !.dbCalls = @ + 1])]
          ELSE /\ req' = [req EXCEPT ![r] = [q EXCEPT !.pc = "sessCreate", !.dbCalls = @ + 1,
                                                      !.checkError = ~ok]]
               /\ UNCHANGED touchQ
  /\ UNCHANGED <<ragVars, supabase, sessions, interactions, archiveQ, log, budget>>

\* a sessions table without its primary key
SessionCreateNoKey(r) ==
  /\ req[r].pc = "sessCreate"
  /\ \E ok \in BOOLEAN :
       LET q == req[r]
           row == [ id |-> q.sessionId, student_id |-> q.userId, mode |-> ModeOf(q),
                    created_at |-> Date(r), last_activity |-> Date(r), context |-> "{}" ]
       IN /\ sessions' = IF ok THEN sessions \cup {row} ELSE sessions
          /\ req' = [req EXCEPT ![r] = AfterSession([q EXCEPT !.checkError = FALSE])]
  /\ UNCHANGED <<ragVars, supabase, interactions, archiveQ, touchQ, log, budget>>

\* chat.js 92-111 / search.js 106-124: sessions.insert(...) resolves; the
\* primary key rejects a second row with the same id; a failure is only
\* written to the console and the handler continues
SessionCreate(r) ==
  /\ req[r].pc = "sessCreate"
  /\ \E ok \in BOOLEAN :
       LET q == req[r]
           row == [ id |-> q.sessionId, student_id |-> q.userId, mode |-> ModeOf(q),
                    created_at |-> Date(r), last_activity |-> Date(r), context |-> "{}" ]
       IN /\ sessions' = IF ok /\ ~SessionExists(q.sessionId)
                         THEN sessions \cup {row}
                         ELSE sessions
          /\ req' = [req EXCEPT ![r] = AfterSession([q EXCEPT !.checkError = FALSE])]
  /\ UNCHANGED <<ragVars, supabase, interactions, archiveQ, touchQ, log, budget>>

\* chat.js 128-155: the history query resolves (no data on a query error),
\* then retrieveRelevantChunks is entered
HistoryLoad(r) ==
  /\ req[r].pc = "history"
  /\ \E ok \in BOOLEAN :
       LET q == req[r]
           history == IF ok THEN SelectHistory(interactions, q.sessionId) ELSE <<>>
       IN req' = [req EXCEPT ![r] = EnterRetrieve([q EXCEPT !.history = history, !.historyOk = ok])]
  /\ UNCHANGED <<ragVars, supabase, sessions, interactions, archiveQ, touchQ, log, budget>>

\* chunky.js 294-340 with its caller: the embedding and the match_documents
\* rpc resolve; any failure is re-thrown as "RAG retrieval error" and reaches
\* the route's catch -> next(error)
Retrieve(r) ==
  /\ req[r].pc = "retrieve"
  /\ \E outcome \in {"ok", "embedFail", "rpcFail"}, data \in RetrievalResults :
       LET q == req[r]
           q1 == [q EXCEPT !.rpcCalls = IF outcome = "embedFail" THEN @ ELSE @ + 1,
                           !.dbCalls = IF outcome = "embedFail" THEN @ ELSE @ + 1]
       IN req' = [req EXCEPT ![r] =
            IF outcome = "ok"
            THEN PromptAndCall(q1, data)
            ELSE ErrorHandler([q1 EXCEPT !.retrievalFailed = TRUE], "RAG retrieval error")]
  /\ UNCHANGED <<ragVars, supabase, sessions, interactions, archiveQ, touchQ, log, budget>>

\* res.write(chunk): the first write sends status line and headers
Write(q, chunk) ==
  [q EXCEPT !.headersSent = TRUE,
            !.wireStatus = IF q.headersSent THEN @ ELSE q.statusCode,
            !.stream = Append(@, chunk)]

\* res.end()
End(q) ==
  [q EXCEPT !.headersSent = TRUE,
            !.wireStatus = IF q.headersSent THEN @ ELSE q.statusCode,
            !.ended = TRUE]

\* llmService.js 72-79 as awaited by chat.js 221: ollama.chat({stream: true})
\* resolves with a stream, or rejects ("LLM service error" -> next(error))
LLMCallChat(r) ==
  /\ req[r].pc = "llm"
  /\ req[r].endpoint = "chat"
  /\ \E ok \in BOOLEAN :
       req' = [req EXCEPT ![r] =
         IF ok THEN [@ EXCEPT !.pc = "stream"]
         ELSE ErrorHandler([@ EXCEPT !.llmFailed = TRUE], "LLM service error")]
  /\ UNCHANGED <<ragVars, supabase, sessions, interactions, archiveQ, touchQ, log, budget>>

\* llmService.js 85-90 + chat.js 221-224: the stream yields one more part;
\* the route writes it to the response and appends it to fullResponse
\* (no 'close' listener is registered: a client that has gone away does not
\* change the course of the loop)
StreamFragment(r) ==
  /\ req[r].pc = "stream"
  /\ Len(req[r].fullResponse) < MaxFrags
  /\ LET q == req[r]
         chunk == Frag(r, Len(q.fullResponse) + 1)
     IN req' = [req EXCEPT ![r] =
                  [Write(q, chunk) EXCEPT !.fullResponse = Append(@, chunk)]]
  /\ UNCHANGED <<ragVars, supabase, sessions, interactions, archiveQ, touchQ, log, budget>>

\* a chat route that ends the response and archives nothing
StreamEndNoArchive(r) ==
  /\ req[r].pc = "stream"
  /\ req' = [req EXCEPT ![r] = [End(@) EXCEPT !.pc = "done"]]
  /\ UNCHANGED <<ragVars, supabase, sessions, interactions, archiveQ, touchQ, log, budget>>

\* chat.js 225-270: the stream is exhausted; res.end(), then the archive
\* insert is issued and not awaited
StreamEnd(r) ==
  /\ req[r].pc = "stream"
  /\ LET q == [End(req[r]) EXCEPT !.pc = "done"]
     IN IF supabase /\ ~Falsy(q.sessionId)
        THEN /\ req' = [req EXCEPT ![r] =
                          [q EXCEPT !.archiveIssued = TRUE, !.dbCalls = @ + 1]]
             /\ archiveQ' = archiveQ \cup {[r |-> r, row |-> ArchiveRow(q, "tutoring")]}
        ELSE /\ req' = [req EXCEPT ![r] = q]
             /\ UNCHANGED archiveQ
  /\ UNCHANGED <<ragVars, supabase, sessions, interactions, touchQ, log, budget>>

\* llmService.js 85-98 + chat.js 271-273: the stream throws while being
\* iterated; the generator re-throws, the route's catch calls next(error)
StreamFail(r) ==
  /\ req[r].pc = "stream"
  /\ req' = [req EXCEPT ![r] =
               ErrorHandler([@ EXCEPT !.llmFailed = TRUE], "LLM service error")]
  /\ UNCHANGED <<ragVars, supabase, sessions, interactions, archiveQ, touchQ, log, budget>>

\* search.js 145-250: ollama.chat({stream: false}) resolves and is yielded
\* once into summary; sources are formatted, the archive insert is issued
\* (not awaited) and res.json answers; a rejection goes to next(error)
LLMCallSearch(r) ==
  /\ req[r].pc = "llm"
  /\ req[r].endpoint = "search"
  /\ \E ok \in BOOLEAN :
       LET q == req[r]
           summary == <<Frag(r, 1)>>
           q1 == [q EXCEPT !.fullResponse = summary]
           sources == IF q.chunks = <<>> THEN <<>> ELSE q.chunks
       IN IF ok
          THEN /\ archiveQ' = archiveQ \cup {[r |-> r, row |-> ArchiveRow(q1, "info_access")]}
               /\ req' = [req EXCEPT ![r] =
                    [q1 EXCEPT !.pc = "done", !.archiveIssued = TRUE, !.dbCalls = @ + 1,
                               !.headers = {AppJson},
                               !.headersSent = TRUE, !.wireStatus = q.statusCode,
                               !.json = [kind |-> "search", error |-> "",
                                         summary |-> summary, sources |-> sources,
                                         data |-> <<>>],
                               !.ended = TRUE]]
          ELSE /\ req' = [req EXCEPT ![r] =
                    ErrorHandler([q EXCEPT !.llmFailed = TRUE], "LLM service error")]
               /\ UNCHANGED archiveQ
  /\ UNCHANGED <<ragVars, supabase, sessions, interactions, touchQ, log, budget>>

\* the stored form of a row handed to interactions.insert
Stored(row, ts) ==
  [ student_id |-> row.student_id, session_id |-> row.session_id,
    mode |-> row.mode, user_message |-> row.user_message,
    assistant_response |-> row.assistant_response,
    retrieved_chunk_ids |-> row.retrieved_chunk_ids, timestamp |-> ts ]

\* an archive callback that hands its failure to the request's error path
ArchiveLandSurfacing(op) ==
  /\ op \in archiveQ
  /\ \E ok \in BOOLEAN :
       IF ok /\ SessionExists(op.row.session_id)
       THEN /\ interactions' = Append(interactions, Stored(op.row, Len(interactions) + 1))
            /\ UNCHANGED <<log, req>>
       ELSE /\ log' = log \cup {<<"archiveFailed", op.r>>}
            /\ req' = [req EXCEPT ![op.r] = ErrorHandler(@, "archive failed")]
            /\ UNCHANGED interactions
  /\ archiveQ' = archiveQ \ {op}
  /\ UNCHANGED <<ragVars, supabase, sessions, touchQ, budget>>

\* an interactions table without its foreign key
ArchiveLandNoForeignKey(op) ==
  /\ op \in archiveQ
  /\ \E ok \in BOOLEAN :
       IF ok
       THEN /\ interactions' = Append(interactions, Stored(op.row, Len(interactions) + 1))
            /\ UNCHANGED log
       ELSE /\ log' = log \cup {<<"archiveFailed", op.r>>}
            /\ UNCHANGED interactions
  /\ archiveQ' = archiveQ \ {op}
  /\ UNCHANGED <<ragVars, supabase, sessions, req, touchQ, budget>>

\* the datastore answers a pending interactions insert: the row is appended
\* with timestamp NOW() if its session exists (foreign key), otherwise - or on
\* any other error - the .then/.catch callbacks only log
ArchiveLand(op) ==
  /\ op \in archiveQ
  /\ \E ok \in BOOLEAN :
       IF ok /\ SessionExists(op.row.session_id)
       THEN /\ interactions' = Append(interactions, Stored(op.row, Len(interactions) + 1))
            /\ UNCHANGED log
       ELSE /\ log' = log \cup {<<"archiveFailed", op.r>>}
            /\ UNCHANGED interactions
  /\ archiveQ' = archiveQ \ {op}
  /\ UNCHANGED <<ragVars, supabase, sessions, req, touchQ, budget>>

\* an activity update that writes the whole row anew
TouchLandRewriting(op) ==
  /\ op \in touchQ
  /\ \E ok \in BOOLEAN :
       sessions' = IF ok
                   THEN { IF s.id = op.id
                          THEN [s EXCEPT !.last_activity = op.at, !.created_at = op.at]
                          ELSE s : s \in sessions }
                   ELSE sessions
  /\ touchQ' = touchQ \ {op}
  /\ UNCHANGED <<ragVars, supabase, interactions, req, archiveQ, log, budget>>

\* the datastore answers a pending sessions.update({last_activity}); errors
\* are ignored (.catch(() => {}))
TouchLand(op) ==
  /\ op \in touchQ
  /\ \E ok \in BOOLEAN :
       sessions' = IF ok
                   THEN { IF s.id = op.id THEN [s EXCEPT !.last_activity = op.at] ELSE s
                          : s \in sessions }
                   ELSE sessions
  /\ touchQ' = touchQ \ {op}
  /\ UNCHANGED <<ragVars, supabase, interactions, req, archiveQ, log, budget>>

Next ==
  \/ \E r \in Reqs : StartChat(r)
  \/ \E r \in Reqs : StartSearch(r)
  \/ \E r \in Reqs : SessionCheck(r)
  \/ \E r \in Reqs : SessionCreate(r)
  \/ \E r \in Reqs : HistoryLoad(r)
  \/ \E r \in Reqs : Retrieve(r)
  \/ \E r \in Reqs : LLMCallChat(r)
  \/ \E r \in Reqs : StreamFragment(r)
  \/ \E r \in Reqs : StreamEnd(r)
  \/ \E r \in Reqs : StreamFail(r)
  \/ \E r \in Reqs : LLMCallSearch(r)
  \/ \E op \in archiveQ : ArchiveLand(op)
  \/ \E op \in touchQ : TouchLand(op)

Spec == Init /\ [][Next]_vars

SpecHist == InitHist /\ [][Next]_vars

\* ------------------------------ sessions and interactions routers, 404

\* a new request reaches a route: requests are numbered in arrival order
Arrive(r) ==
  /\ budget > 0
  /\ r = Cardinality({x \in Reqs : req[x].pc # "idle"}) + 1
  /\ req[r].pc = "idle"

DataJson(rows) ==
  [kind |-> "data", error |-> "", summary |-> <<>>, sources |-> <<>>, data |-> rows]

\* res.status(code).json(payload) with a payload that is not an error
Send(q, code, rows) ==
  [q EXCEPT !.pc = "done", !.statusCode = code, !.headers = {AppJson}, !.headersSent = TRUE,
            !.wireStatus = code, !.json = DataJson(rows), !.ended = TRUE]

\* app.js: no router matches, next(createError(404)), the error handler
\* answers with err.status
NotFoundHandler(q) == [Reply(q, 404, "Route not found") EXCEPT !.errNext = TRUE]

\* message of the error object .single() resolves with when the query
\* matches no row (PostgREST PGRST116); throw error -> next(error)
NoRows == "JSON object requested, multiple (or no) rows returned"

\* message of any other error the datastore answers with
DbError == "datastore error"

\* ids a client may ask for: one that can exist and one that never does
SessionIds == {"s1", "s9"}
InteractionIds == {"1", "99"}

\* the key of interactions row i (BIGSERIAL), as it appears in a URL
IdOf(i) == ToString(i)

SessionRow(id) == CHOOSE s \in sessions : s.id = id

RECURSIVE ByCreatedDesc(_)
\* .order('created_at', { ascending: false }) over a set of session rows
ByCreatedDesc(S) ==
  IF S = {} THEN <<>>
  ELSE LET top == CHOOSE s \in S : \A t \in S : t.created_at <= s.created_at
       IN <<top>> \o ByCreatedDesc(S \ {top})

RECURSIVE ByStudent(_, _, _)
\* interactions .eq('student_id', stu) [.eq('session_id', sid)]
ByStudent(rows, stu, sid) ==
  IF rows = <<>> THEN <<>>
  ELSE LET h == Head(rows)
           keep == h.student_id = stu /\ (Falsy(sid) \/ h.session_id = sid)
       IN (IF keep THEN <<h>> ELSE <<>>) \o ByStudent(Tail(rows), stu, sid)

\* .order('timestamp', { ascending: false })
Reverse(rows) == [i \in 1 .. Len(rows) |-> rows[Len(rows) + 1 - i]]

\* the fields PATCH /api/sessions/:id lets through
allowedUpdates == {"last_activity", "context", "mode"}

\* fields a PATCH body may carry
PatchKeys == {"last_activity", "context", "mode", "student_id"}

\* Object.keys(updates).filter(key => allowedUpdates.includes(key))
filteredUpdates(body) == {key \in body : key \in allowedUpdates}

\* sessions.update(fields).eq('id', id): the values request r sends
ApplyUpdates(s, fields, r) ==
  [s EXCEPT !.last_activity = IF "last_activity" \in fields THEN Date(r) ELSE @,
            !.mode = IF "mode" \in fields THEN "info_access" ELSE @,
            !.context = IF "context" \in fields THEN "ctx" ELSE @,
            !.student_id = IF "student_id" \in fields THEN "mallory" ELSE @]

\* sessions.js 10-45: POST /api/sessions up to the awaited insert
\* (userId holds body.studentId, param holds body.mode)
SessionsPost(r) ==
  /\ Arrive(r)
  /\ \E stu \in {Absent, "stu"}, mode \in {Absent, "tutoring", "lecture"} :
       LET q == [req[r] EXCEPT !.endpoint = "sessions.post", !.userId = stu, !.param = mode,
                                  !.prior = Completed]
       IN req' = [req EXCEPT ![r] =
            IF ~supabase
            THEN Reply(q, 503, "Session management is unavailable until Supabase is configured.")
            ELSE IF Falsy(stu) \/ Falsy(mode)
            THEN Reply(q, 400, "Missing required fields: studentId and mode are required")
            ELSE IF mode \notin {"tutoring", "info_access"}
            THEN Reply(q, 400, "Invalid mode. Must be \"tutoring\" or \"info_access\"")
            ELSE [q EXCEPT !.pc = "sessions.insert", !.sessionId = uuidv4(r), !.dbCalls = @ + 1]]
  /\ budget' = budget - 1
  /\ UNCHANGED <<ragVars, supabase, sessions, interactions, archiveQ, touchQ, log>>

\* sessions.js 41-54: the insert resolves; 201 with the row or next(error)
SessionsInsert(r) ==
  /\ req[r].pc = "sessions.insert"
  /\ \E ok \in BOOLEAN :
       LET q == req[r]
           row == [ id |-> q.sessionId, student_id |-> q.userId, mode |-> q.param,
                    created_at |-> Date(r), last_activity |-> Date(r), context |-> "{}" ]
       IN IF ok /\ ~SessionExists(q.sessionId)
          THEN /\ sessions' = sessions \cup {row}
               /\ req' = [req EXCEPT ![r] = Send(q, 201, <<row>>)]
          ELSE /\ req' = [req EXCEPT ![r] = ErrorHandler(q, DbError)]
               /\ UNCHANGED sessions
  /\ UNCHANGED <<ragVars, supabase, interactions, archiveQ, touchQ, log, budget>>

\* sessions.js 62-76: GET /api/sessions/student/:studentId up to the select
SessionsByStudent(r) ==
  /\ Arrive(r)
  /\ \E stu \in {"stu", "nobody"} :
       LET q == [req[r] EXCEPT !.endpoint = "sessions.student", !.param = stu,
                                  !.prior = Completed]
       IN req' = [req EXCEPT ![r] =
            IF ~supabase
            THEN Reply(q, 503, "Session history is unavailable until Supabase is configured.")
            ELSE [q EXCEPT !.pc = "sessions.list", !.dbCalls = @ + 1]]
  /\ budget' = budget - 1
  /\ UNCHANGED <<ragVars, supabase, sessions, interactions, archiveQ, touchQ, log>>

\* sessions.js 72-85: the select resolves; res.json(data || [])
SessionsList(r) ==
  /\ req[r].pc = "sessions.list"
  /\ \E ok \in BOOLEAN :
       LET q == req[r]
           data == ByCreatedDesc({s \in sessions : s.student_id = q.param})
       IN req' = [req EXCEPT ![r] =
            IF ok THEN Send(q, 200, data) ELSE ErrorHandler(q, DbError)]
  /\ UNCHANGED <<ragVars, supabase, sessions, interactions, archiveQ, touchQ, log, budget>>

\* sessions.js 92-106: GET /api/sessions/:sessionId up to the awaited select
SessionsGet(r) ==
  /\ Arrive(r)
  /\ \E id \in SessionIds :
       LET q == [req[r] EXCEPT !.endpoint = "sessions.get", !.param = id,
                                  !.prior = Completed]
       IN req' = [req EXCEPT ![r] =
            IF ~supabase
            THEN Reply(q, 503, "Session details are unavailable until Supabase is configured.")
            ELSE [q EXCEPT !.pc = "sessions.select", !.dbCalls = @ + 1]]
  /\ budget' = budget - 1
  /\ UNCHANGED <<ragVars, supabase, sessions, interactions, archiveQ, touchQ, log>>

\* sessions.js 102-120: select(...).single() resolves: with an error object
\* when no row matches (thrown), otherwise with the row; line 112 tests data
\* only after the throw; then the count query is awaited
SessionsSelect(r) ==
  /\ req[r].pc = "sessions.select"
  /\ \E ok \in BOOLEAN :
       LET q == req[r]
       IN req' = [req EXCEPT ![r] =
            IF ~ok THEN ErrorHandler(q, DbError)
            ELSE IF ~SessionExists(q.param) THEN ErrorHandler(q, NoRows)
            ELSE [q EXCEPT !.pc = "sessions.count", !.dbCalls = @ + 1,
                           !.json = DataJson(<<SessionRow(q.param)>>)]]
  /\ UNCHANGED <<ragVars, supabase, sessions, interactions, archiveQ, touchQ, log, budget>>

\* sessions.js 117-128: the count resolves (its error is not looked at);
\* res.json({...data, messageCount: count || 0})
SessionsCount(r) ==
  /\ req[r].pc = "sessions.count"
  /\ \E ok \in BOOLEAN :
       LET q == req[r]
           count == IF ok THEN Len(Filter(interactions, q.param)) ELSE 0
       IN req' = [req EXCEPT ![r] =
            Send(q, 200, <<[session |-> q.json.data[1], messageCount |-> count]>>)]
  /\ UNCHANGED <<ragVars, supabase, sessions, interactions, archiveQ, touchQ, log, budget>>

\* sessions.js 135-166: PATCH /api/sessions/:sessionId up to the awaited
\* update; body is the set of field names the request body carries
SessionsPatch(r) ==
  /\ Arrive(r)
  /\ \E id \in SessionIds, updates \in SUBSET PatchKeys :
       LET q == [req[r] EXCEPT !.endpoint = "sessions.patch", !.param = id, !.body = updates,
                                  !.prior = Completed]
       IN req' = [req EXCEPT ![r] =
            IF ~supabase
            THEN Reply(q, 503, "Session management is unavailable until Supabase is configured.")
            ELSE IF filteredUpdates(updates) = {}
            THEN Reply(q, 400, "No valid fields to update")
            ELSE [q EXCEPT !.pc = "sessions.update", !.dbCalls = @ + 1]]
  /\ budget' = budget - 1
  /\ UNCHANGED <<ragVars, supabase, sessions, interactions, archiveQ, touchQ, log>>

\* sessions.js 161-179: update(filteredUpdates).eq('id', id).select().single()
\* resolves: the row is updated and returned, or - no row with that id - the
\* error object of .single() is thrown
SessionsUpdate(r) ==
  /\ req[r].pc = "sessions.update"
  /\ \E ok \in BOOLEAN :
       LET q == req[r]
           new == ApplyUpdates(SessionRow(q.param), filteredUpdates(q.body), r)
       IN IF ok /\ SessionExists(q.param)
          THEN /\ sessions' = (sessions \ {SessionRow(q.param)}) \cup {new}
               /\ req' = [req EXCEPT ![r] = Send(q, 200, <<new>>)]
          ELSE /\ req' = [req EXCEPT ![r] =
                    ErrorHandler(q, IF ok THEN NoRows ELSE DbError)]
               /\ UNCHANGED sessions
  /\ UNCHANGED <<ragVars, supabase, interactions, archiveQ, touchQ, log, budget>>

\* interactions.js 9-36: GET /api/interactions?studentId=&sessionId= up to the
\* awaited select (userId holds query.studentId, provided holds query.sessionId)
InteractionsList(r) ==
  /\ Arrive(r)
  /\ \E stu \in {Absent, "stu"}, sid \in {Absent, "s1"} :
       LET q == [req[r] EXCEPT !.endpoint = "interactions.list", !.userId = stu,
                                  !.provided = sid, !.prior = Completed]
       IN req' = [req EXCEPT ![r] =
            IF ~supabase
            THEN Reply(q, 503, "Interaction history is unavailable until Supabase is configured.")
            ELSE IF Falsy(stu)
            THEN Reply(q, 400, "Missing required parameter: studentId")
            ELSE [q EXCEPT !.pc = "interactions.list", !.dbCalls = @ + 1]]
  /\ budget' = budget - 1
  /\ UNCHANGED <<ragVars, supabase, sessions, interactions, archiveQ, touchQ, log>>

\* interactions.js 25-46: the select resolves (newest first, first page),
\* then the total count is awaited
InteractionsListSelect(r) ==
  /\ req[r].pc = "interactions.list"
  /\ \E ok \in BOOLEAN :
       LET q == req[r]
           data == Limit(Reverse(OrderAsc(ByStudent(interactions, q.userId, q.provided))),
                         DefaultLimit)
       IN req' = [req EXCEPT ![r] =
            IF ok
            THEN [q EXCEPT !.pc = "interactions.count", !.dbCalls = @ + 1,
                           !.json = DataJson(data)]
            ELSE ErrorHandler(q, DbError)]
  /\ UNCHANGED <<ragVars, supabase, sessions, interactions, archiveQ, touchQ, log, budget>>

\* interactions.js 43-56: the count resolves; res.json({interactions, total, ...})
InteractionsListCount(r) ==
  /\ req[r].pc = "interactions.count"
  /\ req' = [req EXCEPT ![r] = Send(@, 200, @.json.data)]
  /\ UNCHANGED <<ragVars, supabase, sessions, interactions, archiveQ, touchQ, log, budget>>

\* interactions.js 63-77: GET /api/interactions/:id up to the awaited select
InteractionsGet(r) ==
  /\ Arrive(r)
  /\ \E id \in InteractionIds :
       LET q == [req[r] EXCEPT !.endpoint = "interactions.get", !.param = id,
                                  !.prior = Completed]
       IN req' = [req EXCEPT ![r] =
            IF ~supabase
            THEN Reply(q, 503, "Interaction history is unavailable until Supabase is configured.")
            ELSE [q EXCEPT !.pc = "interactions.select", !.dbCalls = @ + 1]]
  /\ budget' = budget - 1
  /\ UNCHANGED <<ragVars, supabase, sessions, interactions, archiveQ, touchQ, log>>

\* interactions.js 73-90: select('*').eq('id', id).single() resolves: with an
\* error object when no row matches (thrown), otherwise with the row
InteractionsGetSelect(r) ==
  /\ req[r].pc = "interactions.select"
  /\ \E ok \in BOOLEAN :
       LET q == req[r]
           hit == {i \in 1 .. Len(interactions) : IdOf(i) = q.param}
       IN req' = [req EXCEPT ![r] =
            IF ~ok THEN ErrorHandler(q, DbError)
            ELSE IF hit = {} THEN ErrorHandler(q, NoRows)
            ELSE Send(q, 200, <<interactions[CHOOSE i \in hit : TRUE]>>)]
  /\ UNCHANGED <<ragVars, supabase, sessions, interactions, archiveQ, touchQ, log, budget>>

\* app.js 252-307: routes/documents.js is neither required nor mounted, so
\* POST /api/documents/process and GET /api/documents/list match no router
\* and fall through to the 404 handler
DocumentsRoute(r) ==
  /\ Arrive(r)
  /\ \E path \in {"documents.process", "documents.list"} :
       req' = [req EXCEPT ![r] =
                 NotFoundHandler([@ EXCEPT !.endpoint = path, !.prior = Completed])]
  /\ budget' = budget - 1
  /\ UNCHANGED <<ragVars, supabase, sessions, interactions, archiveQ, touchQ, log>>

\* a store that may hold session "s1" with some archived interactions, and
\* two requests to any of the routes
InitRoutes ==
  /\ supabase \in BOOLEAN
  /\ \E n \in 0 .. MaxSeed, s1 \in BOOLEAN : Store(n, s1)
  /\ Fresh
  /\ budget = MaxReqs

NextRoutes ==
  \/ \E r \in Reqs : StartSearch(r)
  \/ \E r \in Reqs : SessionCheck(r)
  \/ \E r \in Reqs : SessionCreate(r)
  \/ \E r \in Reqs : Retrieve(r)
  \/ \E r \in Reqs : LLMCallSearch(r)
  \/ \E op \in archiveQ : ArchiveLand(op)
  \/ \E op \in touchQ : TouchLand(op)
  \/ \E r \in Reqs : SessionsPost(r)
  \/ \E r \in Reqs : SessionsInsert(r)
  \/ \E r \in Reqs : SessionsByStudent(r)
  \/ \E r \in Reqs : SessionsList(r)
  \/ \E r \in Reqs : SessionsGet(r)
  \/ \E r \in Reqs : SessionsSelect(r)
  \/ \E r \in Reqs : SessionsCount(r)
  \/ \E r \in Reqs : SessionsPatch(r)
  \/ \E r \in Reqs : SessionsUpdate(r)
  \/ \E r \in Reqs : InteractionsList(r)
  \/ \E r \in Reqs : InteractionsListSelect(r)
  \/ \E r \in Reqs : InteractionsListCount(r)
  \/ \E r \in Reqs : InteractionsGet(r)
  \/ \E r \in Reqs : InteractionsGetSelect(r)
  \/ \E r \in Reqs : DocumentsRoute(r)

SpecRoutes == InitRoutes /\ [][NextRoutes]_vars

\* every route of the service, two requests
NextService ==
  \/ \E r \in Reqs : StartChat(r)
  \/ \E r \in Reqs : HistoryLoad(r)
  \/ \E r \in Reqs : LLMCallChat(r)
  \/ \E r \in Reqs : StreamFragment(r)
  \/ \E r \in Reqs : StreamEnd(r)
  \/ \E r \in Reqs : StreamFail(r)
  \/ NextRoutes

SpecService == InitRoutes /\ [][NextService]_vars

\* ------------------------------------------------ similarity search (rpc)

\* similarities (in hundredths) a stored chunk can have to the query vector,
\* and thresholds a caller can pass (0.7 is the default)
Scores == {65, 70, 75, 90, 95}
Thresholds == {0, 70, 90}

\* a row of document_chunks; similarity is 1 - (embedding <=> query_embedding)
\* for the query of the call under examination
DocRow(i, s) ==
  [ id |-> <<"c", i>>, chunk_index |-> i, chunk_text |-> <<"a">>, similarity |-> s ]

\* a WHERE clause that also lets through a similarity equal to the threshold
QualifiesInclusive(row, match_threshold) == row.similarity >= match_threshold

\* WHERE 1 - (embedding <=> query_embedding) > match_threshold
Qualifies(row, match_threshold) == row.similarity > match_threshold

RECURSIVE Where(_, _)
Where(rows, match_threshold) ==
  IF rows = <<>> THEN <<>>
  ELSE (IF Qualifies(Head(rows), match_threshold) THEN <<Head(rows)>> ELSE <<>>)
       \o Where(Tail(rows), match_threshold)

\* embedding <=> query_embedding, in hundredths
Distance(row) == 100 - row.similarity

RECURSIVE InsertByDistance(_, _)
InsertByDistance(row, sorted) ==
  IF sorted = <<>> THEN <<row>>
  ELSE IF Distance(row) < Distance(Head(sorted))
       THEN <<row>> \o sorted
       ELSE <<Head(sorted)>> \o InsertByDistance(row, Tail(sorted))

RECURSIVE OrderByDistance(_)
\* ORDER BY embedding <=> query_embedding (rows at the same distance are kept
\* in scan order here; SQL leaves their order open)
OrderByDistance(rows) ==
  IF rows = <<>> THEN <<>>
  ELSE InsertByDistance(rows[Len(rows)], OrderByDistance(SubSeq(rows, 1, Len(rows) - 1)))

\* the SQL function match_documents: WHERE ... ORDER BY ... LIMIT match_count
match_documents(rows, match_threshold, match_count) ==
  Limit(OrderByDistance(Where(rows, match_threshold)), match_count)

\* nothing but the document store is in use
Quiet ==
  /\ supabase = TRUE
  /\ sessions = {}
  /\ interactions = <<>>
  /\ req = [r \in Reqs |-> IdleReq]
  /\ archiveQ = {}
  /\ touchQ = {}
  /\ log = {}
  /\ budget = 0

InitMatch ==
  /\ Quiet
  /\ \E n \in 0 .. MaxDocs : \E f \in [1 .. n -> Scores] :
       document_chunks = [i \in 1 .. n |-> DocRow(i, f[i])]
  /\ rpc = IdleRpc
  /\ chunker = IdleChunker
  /\ NoIngestion

\* chunky.js 325-335: supabase.rpc('match_documents', {query_embedding,
\* match_threshold: threshold, match_count: topK}) resolves; return data || []
MatchDocuments ==
  /\ rpc.pc = "idle"
  /\ \E threshold \in Thresholds, topK \in 1 .. MaxTopK :
       rpc' = [ pc |-> "done", match_threshold |-> threshold, match_count |-> topK,
                data |-> match_documents(document_chunks, threshold, topK) ]
  /\ UNCHANGED <<supabase, sessions, interactions, req, archiveQ, touchQ, log, budget,
                 document_chunks, chunker, batch, ingest>>

NextMatch == MatchDocuments

SpecMatch == InitMatch /\ [][NextMatch]_vars

\* ------------------------------------------- requests on a healthy system

\* a configured, empty datastore: no session exists yet
InitNew ==
  /\ supabase = TRUE
  /\ Store(0, FALSE)
  /\ Fresh
  /\ budget = MaxReqs

\* the handlers' steps when the datastore, the embedding model and the LLM
\* answer every call without a failure of their own: a query fails only for
\* the reason the schema gives (no such row, key already present, no such
\* session)
CheckAnswered(r) == SessionCheck(r) /\ ~req'[r].checkError

CreateAnswered(r) == SessionCreate(r) /\ SessionExists(req[r].sessionId)'

HistoryAnswered(r) == HistoryLoad(r) /\ req'[r].historyOk

RetrieveAnswered(r) == Retrieve(r) /\ ~req'[r].retrievalFailed

ChatAnswered(r) == LLMCallChat(r) /\ ~req'[r].llmFailed

SearchAnswered(r) == LLMCallSearch(r) /\ ~req'[r].llmFailed

ArchiveAnswered(op) ==
  ArchiveLand(op) /\ (SessionExists(op.row.session_id) => log' = log)

TouchAnswered(op) ==
  TouchLand(op) /\ \A s \in sessions' : s.id = op.id => s.last_activity = op.at

NextHealthy ==
  \/ \E r \in Reqs : StartChat(r)
  \/ \E r \in Reqs : StartSearch(r)
  \/ \E r \in Reqs : CheckAnswered(r)
  \/ \E r \in Reqs : CreateAnswered(r)
  \/ \E r \in Reqs : HistoryAnswered(r)
  \/ \E r \in Reqs : RetrieveAnswered(r)
  \/ \E r \in Reqs : ChatAnswered(r)
  \/ \E r \in Reqs : StreamFragment(r)
  \/ \E r \in Reqs : StreamEnd(r)
  \/ \E r \in Reqs : SearchAnswered(r)
  \/ \E op \in archiveQ : ArchiveAnswered(op)
  \/ \E op \in touchQ : TouchAnswered(op)

SpecHealthy == InitNew /\ [][NextHealthy]_vars

\* ------------------------------------------------- chunkers and ingestion

\* a text is a sequence of characters: a letter or a whitespace character
Chars == {"a", " "}
Texts == UNION { [1 .. n -> Chars] : n \in 0 .. MaxText }

\* a text of 2500 letters
LongText == [i \in 1 .. 2500 |-> "a"]

\* (text, chunkSize, overlap) with 0 < overlap < chunkSize; chunky.js fixes
\* the two numbers as CHUNK_SIZE and CHUNK_OVERLAP
ChunkInputs ==
  { <<t, c, o>> : t \in Texts, c \in 2 .. MaxChunkSize, o \in 1 .. MaxChunkSize - 1 }
    \cup { <<LongText, CHUNK_SIZE, CHUNK_OVERLAP>> }

\* text.slice(a, b): characters a .. b-1 (0-based), cut at the end of the text
\* a negative index counts from the end of the text
SliceIndex(text, i) ==
  IF i < 0 THEN (IF Len(text) + i < 0 THEN 0 ELSE Len(text) + i)
  ELSE IF i < Len(text) THEN i ELSE Len(text)

Slice(text, a, b) ==
  IF SliceIndex(text, a) < SliceIndex(text, b)
  THEN SubSeq(text, SliceIndex(text, a) + 1, SliceIndex(text, b))
  ELSE <<>>

RECURSIVE TrimStart(_)
TrimStart(t) == IF t # <<>> /\ Head(t) = " " THEN TrimStart(Tail(t)) ELSE t

RECURSIVE TrimEnd(_)
TrimEnd(t) ==
  IF t # <<>> /\ t[Len(t)] = " " THEN TrimEnd(SubSeq(t, 1, Len(t) - 1)) ELSE t

\* String.prototype.trim
Trim(t) == TrimEnd(TrimStart(t))

\* the columns ingestion sets from the chunker's output
ChunkRows(chunks) == [i \in 1 .. Len(chunks) |-> [chunk_index |-> i - 1, chunk_text |-> chunks[i]]]

InitChunk ==
  /\ Quiet
  /\ document_chunks = <<>>
  /\ rpc = IdleRpc
  /\ NoIngestion
  /\ \E impl \in {"chunky", "documentService"}, in \in ChunkInputs :
       /\ in[3] < in[2]
       /\ chunker = [ pc |-> "start", impl |-> impl, text |-> in[1], chunkSize |-> in[2],
                      overlap |-> in[3], start |-> 0, chunks |-> <<>> ]

ChunkerOnly ==
  UNCHANGED <<supabase, sessions, interactions, req, archiveQ, touchQ, log, budget, rpc,
              batch, ingest>>

\* chunky.js 144-158: ingestObject skips a file without text, else chunks it
IngestObject ==
  /\ chunker.impl = "chunky" /\ chunker.pc = "start"
  /\ chunker' = [chunker EXCEPT !.pc = IF Trim(chunker.text) = <<>> THEN "skipped" ELSE "loop"]
  /\ UNCHANGED document_chunks
  /\ ChunkerOnly

\* chunky.js 49-53: one evaluation of the for loop of chunkText
ChunkTextStep(c) ==
  LET i == c.start
  IN IF i < Len(c.text)
     THEN [c EXCEPT !.chunks = Append(@, Slice(c.text, i, i + c.chunkSize)),
                    !.start = i + (c.chunkSize - c.overlap)]
     ELSE [c EXCEPT !.pc = "chunked"]

ChunkTextLoop ==
  /\ chunker.impl = "chunky" /\ chunker.pc = "loop"
  /\ chunker' = ChunkTextStep(chunker)
  /\ UNCHANGED document_chunks
  /\ ChunkerOnly

\* chunky.js 160-183: every chunk is embedded and inserted, in order; an
\* error ends the file after the rows already inserted
IngestStore ==
  /\ chunker.impl = "chunky" /\ chunker.pc = "chunked"
  /\ \E n \in 0 .. Len(chunker.chunks) :
       /\ document_chunks' = document_chunks \o SubSeq(ChunkRows(chunker.chunks), 1, n)
       /\ chunker' = [chunker EXCEPT !.pc = IF n = Len(chunker.chunks) THEN "stored" ELSE "failed"]
  /\ ChunkerOnly

\* documentService.js 131-159: processDocument hands the parsed text to chunkText
ProcessDocument ==
  /\ chunker.impl = "documentService" /\ chunker.pc = "start"
  /\ chunker' = [chunker EXCEPT !.pc = "loop"]
  /\ UNCHANGED document_chunks
  /\ ChunkerOnly

\* documentService.js 95-114: one evaluation of the while loop of chunkText,
\* from the loop state c to the next
DocumentChunkTextStep(c) ==
  LET start == c.start
      text == c.text
      stride == c.chunkSize - c.overlap
      end == IF start + c.chunkSize < Len(text) THEN start + c.chunkSize ELSE Len(text)
      chunk == Slice(text, start, end)
      chunks == IF Len(Trim(chunk)) > 0 THEN Append(c.chunks, Trim(chunk)) ELSE c.chunks
      back == end - c.overlap
      next == IF back <= Len(chunks) * stride THEN Len(chunks) * stride ELSE back
  IN IF start < Len(text)
     THEN [c EXCEPT !.chunks = chunks, !.start = next,
                    !.pc = IF next >= Len(text) THEN "chunked" ELSE "loop"]
     ELSE [c EXCEPT !.pc = "chunked"]

DocumentChunkTextLoop ==
  /\ chunker.impl = "documentService" /\ chunker.pc = "loop"
  /\ Len(chunker.chunks) < MaxPushed
  /\ chunker' = DocumentChunkTextStep(chunker)
  /\ UNCHANGED document_chunks
  /\ ChunkerOnly

\* documentService.js 162-176 with storeDocumentChunks (chunky.js 380-410):
\* the chunk objects are inserted in one statement, or the insert fails
StoreDocumentChunks ==
  /\ chunker.impl = "documentService" /\ chunker.pc = "chunked"
  /\ \E ok \in BOOLEAN :
       /\ document_chunks' = IF ok THEN document_chunks \o ChunkRows(chunker.chunks)
                             ELSE document_chunks
       /\ chunker' = [chunker EXCEPT !.pc = IF ok THEN "stored" ELSE "failed"]
  /\ ChunkerOnly

NextChunk ==
  \/ IngestObject
  \/ ChunkTextLoop
  \/ IngestStore
  \/ ProcessDocument
  \/ DocumentChunkTextLoop
  \/ StoreDocumentChunks

SpecChunk == InitChunk /\ [][NextChunk]_vars

\* chunkText called directly, with any text and any two numbers; chunkText of
\* chunky.js takes the text only
CallInputs ==
  { <<t, c, o>> : t \in Texts, c \in 1 .. MaxChunkSize, o \in 0 .. MaxChunkSize }

InitCall ==
  /\ Quiet
  /\ document_chunks = <<>>
  /\ rpc = IdleRpc
  /\ NoIngestion
  /\ \E impl \in {"chunky", "documentService"}, in \in CallInputs :
       /\ impl = "chunky" => (0 < in[3] /\ in[3] < in[2])
       /\ chunker = [ pc |-> "loop", impl |-> impl, text |-> in[1], chunkSize |-> in[2],
                      overlap |-> in[3], start |-> 0, chunks |-> <<>> ]

NextCall ==
  \/ ChunkTextLoop
  \/ DocumentChunkTextLoop

SpecCall == InitCall /\ [][NextCall]_vars

\* ------------------------------------------------------ embedding service

\* llmService.js 131-138: the embedding model is a function of its prompt
Embed(prompt) == <<"embedding", prompt>>

\* the slot of a result Promise.all has not received yet
Unsettled == <<>>

BatchTexts == { t \in Texts : Len(t) \in 1 .. 2 }
BatchInputs == UNION { [1 .. n -> BatchTexts] : n \in 0 .. MaxBatch }

\* Promise.all keeps the value of promise i at position i
SettleInCompletionOrder(values, i, v) ==
  [values EXCEPT ![CHOOSE j \in 1 .. Len(values) :
                     values[j] = Unsettled /\ \A k \in 1 .. j - 1 : values[k] # Unsettled] = v]

SettleAt(values, i, v) == [values EXCEPT ![i] = v]

InitEmbed ==
  /\ Quiet
  /\ document_chunks = <<>>
  /\ rpc = IdleRpc
  /\ chunker = IdleChunker
  /\ ingest = IdleIngest
  /\ \E texts \in BatchInputs : batch = [IdleBatch EXCEPT !.texts = texts]

BatchOnly ==
  UNCHANGED <<supabase, sessions, interactions, req, archiveQ, touchQ, log, budget,
              document_chunks, rpc, chunker, ingest>>

\* embeddingService.js 83-86: texts.map starts one generateEmbedding call per
\* text and Promise.all waits for them; an empty array resolves at once
GenerateEmbeddings ==
  /\ batch.pc = "idle"
  /\ batch' = [batch EXCEPT
                 !.pc = "awaiting",
                 !.calls = [i \in 1 .. Len(batch.texts) |-> "pending"],
                 !.values = [i \in 1 .. Len(batch.texts) |-> Unsettled],
                 !.all = IF batch.texts = <<>> THEN "fulfilled" ELSE "pending"]
  /\ BatchOnly

\* llmService.js 131-138: call i returns response.embedding; Promise.all
\* resolves when the last value has arrived
EmbeddingReturns(i) ==
  /\ batch.pc = "awaiting" /\ i \in 1 .. Len(batch.calls) /\ batch.calls[i] = "pending"
  /\ LET calls == [batch.calls EXCEPT ![i] = "fulfilled"]
         values == SettleAt(batch.values, i, Embed(batch.texts[i]))
     IN batch' = [batch EXCEPT
                    !.calls = calls,
                    !.values = IF batch.all = "pending" THEN values ELSE @,
                    !.all = IF batch.all = "pending" /\ \A j \in 1 .. Len(calls) : calls[j] = "fulfilled"
                            THEN "fulfilled" ELSE @]
  /\ BatchOnly

\* llmService.js 139-142: call i throws; Promise.all rejects with the first
\* rejection
EmbeddingThrows(i) ==
  /\ batch.pc = "awaiting" /\ i \in 1 .. Len(batch.calls) /\ batch.calls[i] = "pending"
  /\ batch' = [batch EXCEPT
                 !.calls[i] = "rejected",
                 !.all = IF batch.all = "pending" THEN "rejected" ELSE @]
  /\ BatchOnly

\* embeddingService.js 83-88: the await resumes with the array, which is returned
BatchReturn ==
  /\ batch.pc = "awaiting" /\ batch.all = "fulfilled"
  /\ batch' = [batch EXCEPT !.pc = "returned", !.result = batch.values]
  /\ BatchOnly

\* embeddingService.js 89-92: the await throws and the catch rethrows
BatchThrow ==
  /\ batch.pc = "awaiting" /\ batch.all = "rejected"
  /\ batch' = [batch EXCEPT !.pc = "thrown"]
  /\ BatchOnly

NextEmbed ==
  \/ GenerateEmbeddings
  \/ \E i \in 1 .. MaxBatch : EmbeddingReturns(i)
  \/ \E i \in 1 .. MaxBatch : EmbeddingThrows(i)
  \/ BatchReturn
  \/ BatchThrow

SpecEmbed == InitEmbed /\ [][NextEmbed]_vars

\* ----------------------------------------------------------- bulk ingestion

\* the value of a property an object does not have
Undefined == <<"undefined">>

\* the names of the first n documents of a listing
FileNames(n) == [f \in 1 .. n |-> ToString(f)]
DocTexts == { t \in Texts : Len(t) <= MaxDocText }

\* chunkText entered with the text of a document
ChunkCall(impl, text) ==
  [ pc |-> "loop", impl |-> impl, text |-> text, chunkSize |-> IngestChunkSize,
    overlap |-> IngestOverlap, start |-> 0, chunks |-> <<>> ]

\* chunky.js 45-54: the loop of chunkText run to its end
RECURSIVE RunChunkText(_)
RunChunkText(c) == IF c.pc # "loop" THEN c ELSE RunChunkText(ChunkTextStep(c))

\* documentService.js 95-116: the loop of chunkText run until it ends or
\* until an evaluation leaves it where it was
RECURSIVE RunDocumentChunkText(_)
RunDocumentChunkText(c) ==
  IF c.pc # "loop" \/ DocumentChunkTextStep(c) = c THEN c
  ELSE RunDocumentChunkText(DocumentChunkTextStep(c))

ChunkRow(name, idx, text, embedding) ==
  [ document_name |-> name, chunk_index |-> idx, chunk_text |-> text, embedding |-> embedding ]

InitIngest ==
  /\ Quiet
  /\ document_chunks = <<>>
  /\ rpc = IdleRpc
  /\ chunker = IdleChunker
  /\ batch = IdleBatch
  /\ ingest = IdleIngest

IngestOnly ==
  UNCHANGED <<supabase, sessions, interactions, req, archiveQ, touchQ, log, budget,
              rpc, chunker, batch>>

Obj(f) == ingest.objs[f]
Settled(o) == o.pc \in {"ingested", "skipped", "failed"}

\* chunky.js 189-216: the bucket is listed and validFiles.map calls
\* ingestObject for every file before any of them resumes
MainStart ==
  /\ ingest.pc = "idle" /\ ingest.runs < MaxRuns
  /\ \E n \in 1 .. MaxFiles :
       ingest' = [ingest EXCEPT
                    !.pc = "ingesting", !.impl = "chunky", !.runs = @ + 1,
                    !.files = FileNames(n),
                    !.objs = [f \in 1 .. n |-> [IdleObj EXCEPT !.pc = "fetching", !.attempts = 1]]]
  /\ UNCHANGED document_chunks
  /\ IngestOnly

\* chunky.js 146-157: fetchFile and extractText resume with the text or throw;
\* a blank text is skipped, any other is chunked
FetchExtract(f) ==
  /\ ingest.pc = "ingesting" /\ ingest.impl = "chunky"
  /\ f \in 1 .. Len(ingest.objs) /\ Obj(f).pc = "fetching"
  /\ \/ ingest' = [ingest EXCEPT !.objs[f].pc = "failed"]
     \/ \E text \in DocTexts :
          ingest' =
            IF Trim(text) = <<>>
            THEN [ingest EXCEPT !.objs[f].pc = "skipped", !.objs[f].text = text]
            ELSE [ingest EXCEPT !.objs[f].pc = "embedding", !.objs[f].text = text,
                                !.objs[f].chunks = RunChunkText(ChunkCall("chunky", text)).chunks]
  /\ UNCHANGED document_chunks
  /\ IngestOnly

\* chunky.js 161-165: generateEmbedding(chunk_text) resumes or throws
EmbedChunk(f) ==
  /\ ingest.pc = "ingesting" /\ ingest.impl = "chunky"
  /\ f \in 1 .. Len(ingest.objs) /\ Obj(f).pc = "embedding"
  /\ \/ ingest' = [ingest EXCEPT !.objs[f].pc = "failed"]
     \/ ingest' = [ingest EXCEPT !.objs[f].pc = "inserting",
                                 !.objs[f].embedding = Embed(Obj(f).chunks[Obj(f).idx + 1])]
  /\ UNCHANGED document_chunks
  /\ IngestOnly

\* chunky.js 167-179: the row is inserted, or the insert's error is thrown
InsertChunk(f) ==
  /\ ingest.pc = "ingesting" /\ ingest.impl = "chunky"
  /\ f \in 1 .. Len(ingest.objs) /\ Obj(f).pc = "inserting"
  /\ \/ /\ ingest' = [ingest EXCEPT !.objs[f].pc = "failed"]
        /\ UNCHANGED document_chunks
     \/ /\ document_chunks' =
             Append(document_chunks,
                    ChunkRow(ingest.files[f], Obj(f).idx, Obj(f).chunks[Obj(f).idx + 1],
                             Obj(f).embedding))
        /\ ingest' = [ingest EXCEPT
                        !.objs[f].idx = @ + 1, !.objs[f].stored = @ + 1,
                        !.objs[f].pc = IF Obj(f).idx + 1 < Len(Obj(f).chunks)
                                       THEN "embedding" ELSE "ingested"]
  /\ IngestOnly

\* chunky.js 210-218: Promise.all resumes when every ingestObject has settled
MainDone ==
  /\ ingest.pc = "ingesting" /\ ingest.impl = "chunky"
  /\ \A f \in 1 .. Len(ingest.objs) : Settled(Obj(f))
  /\ ingest' = [ingest EXCEPT !.pc = "complete"]
  /\ UNCHANGED document_chunks
  /\ IngestOnly

\* documentService.js 190-196: processAndStoreDocuments starts with empty
\* results and the first file
BulkStart ==
  /\ ingest.pc = "idle" /\ ingest.runs < MaxRuns
  /\ \E n \in 1 .. MaxFiles :
       ingest' = [ingest EXCEPT
                    !.pc = "processing", !.impl = "documentService", !.runs = @ + 1,
                    !.files = FileNames(n), !.i = 1, !.results = NoResults,
                    !.objs = [f \in 1 .. n |-> IdleObj]]
  /\ UNCHANGED document_chunks
  /\ IngestOnly

\* documentService.js 212-219: the catch of the loop body counts the file as
\* failed, records one error and goes on with the next file
Caught(g) ==
  [g EXCEPT !.objs[g.i].pc = "failed",
            !.results.failed = @ + 1,
            !.results.errors = Append(@, [file |-> g.files[g.i]]),
            !.i = @ + 1]

\* documentService.js 198-203, 131-156: processDocument is called for the
\* next file; parsing resumes with the text or throws
ProcessDocumentCall ==
  /\ ingest.pc = "processing" /\ ingest.i <= Len(ingest.files)
  /\ Obj(ingest.i).pc = "listed"
  /\ \/ ingest' = Caught([ingest EXCEPT !.objs[ingest.i].attempts = @ + 1])
     \/ \E text \in DocTexts :
          ingest' = [ingest EXCEPT !.objs[ingest.i].attempts = @ + 1,
                                   !.objs[ingest.i].text = text,
                                   !.objs[ingest.i].pc = "chunkText"]
  /\ UNCHANGED document_chunks
  /\ IngestOnly

\* documentService.js 159-176: chunkText returns and the chunk objects are
\* built; a loop that does not end returns nothing
ChunkTextReturns ==
  /\ ingest.pc = "processing" /\ ingest.i <= Len(ingest.files)
  /\ Obj(ingest.i).pc = "chunkText"
  /\ LET c == RunDocumentChunkText(ChunkCall("documentService", Obj(ingest.i).text))
     IN /\ c.pc = "chunked"
        /\ ingest' = [ingest EXCEPT !.objs[ingest.i].chunks = c.chunks,
                                    !.objs[ingest.i].pc = "storing"]
  /\ UNCHANGED document_chunks
  /\ IngestOnly

\* chunky.js 387-401: every chunk object gets the embedding of its property
\* text, which the objects of processDocument do not have
StoredRows(name, chunks) ==
  [k \in 1 .. Len(chunks) |-> ChunkRow(name, k - 1, chunks[k], Embed(Undefined))]

\* documentService.js 207-211, chunky.js 380-426: storeDocumentChunks embeds
\* all chunks and inserts them in one statement; an embedding or the insert
\* fails, or the inserted rows come back and are counted
StoreChunks ==
  /\ ingest.pc = "processing" /\ ingest.i <= Len(ingest.files)
  /\ Obj(ingest.i).pc = "storing"
  /\ \/ /\ ingest' = Caught(ingest)
        /\ UNCHANGED document_chunks
     \/ LET data == StoredRows(ingest.files[ingest.i], Obj(ingest.i).chunks)
        IN /\ document_chunks' = document_chunks \o data
           /\ ingest' = [ingest EXCEPT !.objs[ingest.i].pc = "ingested",
                                       !.objs[ingest.i].stored = Len(data),
                                       !.results.processed = @ + 1,
                                       !.results.totalChunks = @ + Len(data),
                                       !.i = @ + 1]
  /\ IngestOnly

\* documentService.js 220-222: the loop is over and results is returned
BulkReturn ==
  /\ ingest.pc = "processing" /\ ingest.i > Len(ingest.files)
  /\ ingest' = [ingest EXCEPT !.pc = "returned"]
  /\ UNCHANGED document_chunks
  /\ IngestOnly

\* the ingestion process has ended; the store keeps its rows for the next one
ProcessExit ==
  /\ ingest.pc \in {"complete", "returned"}
  /\ ingest' = [IdleIngest EXCEPT !.runs = ingest.runs]
  /\ UNCHANGED document_chunks
  /\ IngestOnly

NextIngest ==
  \/ MainStart
  \/ \E f \in 1 .. MaxFiles : FetchExtract(f)
  \/ \E f \in 1 .. MaxFiles : EmbedChunk(f)
  \/ \E f \in 1 .. MaxFiles : InsertChunk(f)
  \/ MainDone
  \/ BulkStart
  \/ ProcessDocumentCall
  \/ ChunkTextReturns
  \/ StoreChunks
  \/ BulkReturn
  \/ ProcessExit

SpecIngest == InitIngest /\ [][NextIngest]_vars

\* ================================================================ claims

Chat(r) == req[r].endpoint = "chat"
Search(r) == req[r].endpoint = "search"
Done(r) == req[r].pc = "done"
PendingArchive(r) == \E op \in archiveQ : op.r = r
ArchivedBy(r) == \E i \in 1 .. Len(interactions) : interactions[i].user_message = MsgOf(r)

\* C1: with the datastore configured, a chat request whose embedding call or
\* match_documents query failed still ends with HTTP 200 and a full stream,
\* built on an empty chunk list and the placeholder prompt; it never reaches
\* the error handler.
C1_SoftDegrade ==
  \A r \in Reqs :
    (supabase /\ Chat(r) /\ req[r].retrievalFailed) =>
      /\ ~req[r].errNext
      /\ req[r].wireStatus # 500
      /\ Done(r) => /\ req[r].wireStatus = 200
                    /\ req[r].ended
                    /\ req[r].messages # <<>>
                    /\ req[r].messages[1].content = Placeholder

\* C2: the message sequence handed to the LLM is one system message, then the
\* loaded history pairs in loaded order as user / assistant, then the current
\* user message: 2*|history| + 2 messages, nothing dropped, doubled or moved.
C2_MessageSequence ==
  \A r \in Reqs :
    (Chat(r) /\ req[r].llmCalls > 0) =>
      LET m == req[r].messages
          h == req[r].history
      IN /\ Len(m) = 2 * Len(h) + 2
         /\ m[1].role = "system"
         /\ \A i \in 1 .. Len(h) :
              /\ m[2 * i].role = "user"
              /\ m[2 * i].content = h[i].user_message
              /\ m[2 * i + 1].role = "assistant"
              /\ m[2 * i + 1].content = h[i].assistant_response
         /\ m[Len(m)].role = "user"
         /\ m[Len(m)].content = req[r].message

C2_Witness ==
  \E r \in Reqs : Chat(r) /\ req[r].llmCalls > 0 /\ Len(req[r].history) >= 2

\* the n rows with the largest timestamps, oldest first
MostRecent(rows, n) ==
  LET o == OrderAsc(rows)
      k == IF Len(o) < n THEN Len(o) ELSE n
  IN SubSeq(o, Len(o) - k + 1, Len(o))

\* C3: the history a chat request loads for its session is the min(10, n)
\* most recent archived interactions of that session, oldest first.
C3_MostRecentHistory ==
  \A r \in Reqs :
    (Chat(r) /\ req[r].pc = "retrieve" /\ req[r].historyOk) =>
      req[r].history =
        Project(MostRecent(Filter(interactions, req[r].sessionId), HistoryLimit))

\* C4: the archive insert is not awaited: when it is issued the response is
\* already complete (200, ended), nothing that happens to the insert changes
\* the request afterwards, a failed insert is only logged, is not issued again
\* and never reaches the error handler.
C4_ArchiveDetached ==
  [][ \A r \in Reqs :
        /\ req'[r].archiveIssued =>
             /\ req'[r].pc = "done"
             /\ req'[r].ended
             /\ req'[r].wireStatus = 200
             /\ ~req'[r].errNext
        /\ req[r].archiveIssued => req'[r] = req[r]
        /\ (req[r].archiveIssued /\ ~PendingArchive(r)) =>
             \A op \in archiveQ' : op.r # r
        /\ (<<"archiveFailed", r>> \in log' /\ <<"archiveFailed", r>> \notin log) =>
             /\ interactions' = interactions
             /\ \A op \in archiveQ' : op.r # r
    ]_vars

C4_Witness ==
  \E r1, r2 \in Reqs :
    /\ Chat(r1) /\ <<"archiveFailed", r1>> \in log /\ req[r1].wireStatus = 200
    /\ Search(r2) /\ PendingArchive(r2) /\ req[r2].wireStatus = 200

\* C5: when the LLM stream stops after k >= 1 fragments, an interaction is
\* still archived for the request, holding exactly those k fragments.
C5_PartialArchived ==
  \A r \in Reqs :
    (supabase /\ Chat(r) /\ Done(r) /\ req[r].llmFailed /\ req[r].fullResponse # <<>>) =>
      /\ req[r].archiveIssued
      /\ \/ \E op \in archiveQ : op.r = r /\ op.row.assistant_response = req[r].fullResponse
         \/ <<"archiveFailed", r>> \in log
         \/ \E i \in 1 .. Len(interactions) :
              /\ interactions[i].user_message = req[r].message
              /\ interactions[i].assistant_response = req[r].fullResponse

\* C6: the response to a chat request sent without sessionId carries the
\* session id the server generated for it.
C6_ResponseCarriesSessionId ==
  \A r \in Reqs :
    (Chat(r) /\ Falsy(req[r].provided) /\ Done(r) /\ req[r].wireStatus = 200) =>
      \/ \E h \in req[r].headers : h[2] = req[r].sessionId
      \/ \E i \in 1 .. Len(req[r].stream) : req[r].stream[i] = req[r].sessionId

\* C7: a chat request that starts after an earlier chat request on the same
\* session has completed finds that request's (message, response) pair in the
\* history it loads.
C7_SeesPriorTurn ==
  \A r1, r2 \in Reqs :
    ( /\ Chat(r1) /\ Chat(r2) /\ r1 \in req[r2].prior
      /\ req[r1].wireStatus = 200 /\ req[r1].ended
      /\ req[r1].sessionId = req[r2].sessionId
      /\ req[r2].historyOk ) =>
      \E i \in 1 .. Len(req[r2].history) :
        /\ req[r2].history[i].user_message = req[r1].message
        /\ req[r2].history[i].assistant_response = req[r1].fullResponse

C9_NoErrorReplyAfterOutput ==
  \A r \in Reqs :
    (Chat(r) /\ req[r].llmFailed /\ req[r].stream # <<>>) =>
      /\ ~req[r].jsonAfterHeaders
      /\ req[r].statusCode = req[r].wireStatus

\* C10: a chat request without message or a search request without query is
\* answered 400 and touches nothing: no session id, no datastore, embedding,
\* retrieval or LLM call, no pending or stored write of its own.
C10_ValidationNoSideEffects ==
  \A r \in Reqs :
    (req[r].pc # "idle" /\ req[r].message = NoMsg) =>
      /\ Done(r)
      /\ req[r].wireStatus = 400
      /\ req[r].json.kind = "error"
      /\ req[r].sessionId = Absent
      /\ req[r].dbCalls = 0
      /\ req[r].embedCalls = 0
      /\ req[r].rpcCalls = 0
      /\ req[r].llmCalls = 0
      /\ ~req[r].archiveIssued
      /\ ~PendingArchive(r)
      /\ \A op \in touchQ : op.r # r
      /\ \A s \in sessions : s.created_at # Date(r)
      /\ \A i \in 1 .. Len(interactions) : interactions[i].user_message # NoMsg

C10_Witness ==
  \E r1, r2 \in Reqs :
    /\ Chat(r1) /\ req[r1].message = NoMsg /\ req[r1].wireStatus = 400
    /\ Search(r2) /\ req[r2].message = NoMsg /\ req[r2].wireStatus = 400

\* the endpoints that need the datastore
DatastoreEndpoints ==
  { "search", "sessions.post", "sessions.student", "sessions.get", "sessions.patch",
    "interactions.list", "interactions.get", "documents.process", "documents.list" }

\* C11: without a datastore client every datastore-dependent endpoint
\* (search, the four sessions routes, the two interactions routes, the
\* documents routes) answers an otherwise valid request with 503 and an error
\* body, and makes no datastore, embedding or LLM call.
C11_Unconfigured503 ==
  \A r \in Reqs :
    ( /\ ~supabase
      /\ req[r].pc # "idle"
      /\ req[r].endpoint \in DatastoreEndpoints
      /\ ~(Search(r) /\ req[r].message = NoMsg) ) =>
      /\ Done(r)
      /\ req[r].wireStatus = 503
      /\ req[r].json.kind = "error"
      /\ req[r].dbCalls = 0
      /\ req[r].embedCalls = 0
      /\ req[r].rpcCalls = 0
      /\ req[r].llmCalls = 0

\* C12: without a datastore a chat request with a message makes no embedding
\* or datastore call, has an empty history and chunk list, hands the LLM
\* exactly [system prompt with the placeholder, current user message], writes
\* no session or interaction, and - the LLM answering - ends with 200 and the
\* whole stream.
C12_ChatWithoutDatastore ==
  \A r \in Reqs :
    (~supabase /\ Chat(r) /\ req[r].message # NoMsg) =>
      /\ req[r].embedCalls = 0
      /\ req[r].rpcCalls = 0
      /\ req[r].dbCalls = 0
      /\ req[r].history = <<>>
      /\ req[r].chunks = <<>>
      /\ req[r].llmCalls = 1
      /\ req[r].messages = << [role |-> "system", content |-> Placeholder],
                              [role |-> "user", content |-> req[r].message] >>
      /\ ~req[r].archiveIssued
      /\ ~PendingArchive(r)
      /\ \A op \in touchQ : op.r # r
      /\ sessions = {}
      /\ interactions = <<>>
      /\ (Done(r) /\ ~req[r].llmFailed) =>
           /\ req[r].wireStatus = 200
           /\ req[r].headers = {TextPlain}
           /\ req[r].ended
           /\ req[r].stream = req[r].fullResponse

C12_Witness ==
  \E r \in Reqs :
    /\ ~supabase /\ Chat(r) /\ Done(r) /\ req[r].wireStatus = 200
    /\ Len(req[r].stream) = MaxFrags

Similarities(rows) == [i \in 1 .. Len(rows) |-> rows[i].similarity]

C14_SearchFallback ==
  \A r \in Reqs :
    (Search(r) /\ req[r].llmCalls > 0 /\ req[r].chunks = <<>>) =>
      /\ req[r].llmCalls = 1
      /\ req[r].messages = << [role |-> "system", content |-> <<"general knowledge">>],
                              [role |-> "user", content |-> req[r].message] >>
      /\ req[r].wireStatus # 404
      /\ \A op \in archiveQ : op.r = r => op.row.retrieved_chunk_ids = <<>>
      /\ \A i \in 1 .. Len(interactions) :
           interactions[i].user_message = req[r].message =>
             interactions[i].retrieved_chunk_ids = <<>>
      /\ (Done(r) /\ ~req[r].llmFailed) =>
           /\ req[r].wireStatus = 200
           /\ req[r].json.kind = "search"
           /\ req[r].json.summary = req[r].fullResponse
           /\ req[r].json.summary # <<>>
           /\ req[r].json.sources = <<>>
           /\ req[r].archiveIssued
           /\ \/ \E op \in archiveQ : op.r = r /\ op.row.assistant_response = req[r].json.summary
              \/ <<"archiveFailed", r>> \in log
              \/ \E i \in 1 .. Len(interactions) :
                   /\ interactions[i].user_message = req[r].message
                   /\ interactions[i].assistant_response = req[r].json.summary

C14_Witness ==
  \E r \in Reqs :
    /\ Search(r) /\ Done(r) /\ req[r].chunks = <<>> /\ req[r].wireStatus = 200
    /\ req[r].json.sources = <<>>
    /\ \E i \in 1 .. Len(interactions) :
         /\ interactions[i].user_message = req[r].message
         /\ interactions[i].retrieved_chunk_ids = <<>>

\* C15: GET /api/sessions/:id and GET /api/interactions/:id answer 404 when no
\* row with the given id exists; the absence of the row alone never gives 500
\* (rows are never deleted, so an id absent now was absent when it was read).
C15_AbsentIs404 ==
  \A r \in Reqs :
    ( /\ supabase
      /\ Done(r)
      /\ \/ req[r].endpoint = "sessions.get" /\ ~SessionExists(req[r].param)
         \/ /\ req[r].endpoint = "interactions.get"
            /\ \A i \in 1 .. Len(interactions) : IdOf(i) # req[r].param
      /\ req[r].json.error # DbError ) =>
      req[r].wireStatus = 404

\* C16: a PATCH /api/sessions/:id whose body carries a field outside
\* {last_activity, context, mode} is answered with an error and changes
\* nothing in the stored session.
C16_PatchRejectsUnknownFields ==
  \A r \in Reqs :
    ( /\ supabase
      /\ Done(r)
      /\ req[r].endpoint = "sessions.patch"
      /\ req[r].body \ allowedUpdates # {} ) =>
      /\ req[r].wireStatus >= 400
      /\ \A s \in sessions : s.id = req[r].param => s.last_activity # Date(r)

\* the archive inserts a step issues
Issued == archiveQ' \ archiveQ

\* request r ends in this step
Ends(r) == req[r].pc # "done" /\ req'[r].pc = "done"

\* C17: with the datastore configured, a chat or search request that ends
\* successfully issues exactly one interaction insert in the step that ends it
\* (student_id 'anonymous' when the request named no student), a request that
\* ends in an error issues none, a request issues none at any other time, and
\* every step leaves the stored interactions as they are or appends one row.
C17_ArchiveOncePerExchange ==
  [][ /\ \A r \in Reqs :
           LET mine == {op \in Issued : op.r = r}
               success == /\ Ends(r)
                          /\ req'[r].endpoint \in {"chat", "search"}
                          /\ req'[r].wireStatus = 200
                          /\ ~req'[r].errNext
           IN /\ (supabase /\ success) =>
                   /\ Cardinality(mine) = 1
                   /\ \A op \in mine :
                        /\ op.row.student_id = req'[r].userId
                        /\ op.row.student_id # Absent
                        /\ op.row.session_id = req'[r].sessionId
                        /\ op.row.user_message = req'[r].message
              /\ ~success => mine = {}
              /\ (Ends(r) /\ (req'[r].errNext \/ req'[r].wireStatus >= 400)) =>
                   /\ ~req'[r].archiveIssued
                   /\ \A op \in archiveQ' : op.r # r
      /\ Len(interactions') \in {Len(interactions), Len(interactions) + 1}
      /\ SubSeq(interactions', 1, Len(interactions)) = interactions
    ]_vars

C17_Witness ==
  /\ Len(interactions) = MaxSeed + 2
  /\ \E r1, r2 \in Reqs :
       /\ Chat(r1) /\ Search(r2) /\ ArchivedBy(r1) /\ ArchivedBy(r2)
       /\ req[r1].userId = "anonymous"
  /\ \E i \in 1 .. Len(interactions) : interactions[i].student_id = "anonymous"

\* the row a chat or search request inserts for its session
OwnSession(r) ==
  [ id |-> req[r].sessionId, student_id |-> req[r].userId, mode |-> ModeOf(req[r]),
    created_at |-> Date(r), last_activity |-> Date(r), context |-> "{}" ]

\* the session check of request r resolves in this step
CheckStep(r) ==
  /\ req[r].endpoint \in {"chat", "search"}
  /\ req[r].pc = "sessCheck" /\ req'[r].pc # "sessCheck"

\* the session insert of request r resolves in this step
CreateStep(r) ==
  /\ req[r].endpoint \in {"chat", "search"}
  /\ req[r].pc = "sessCreate" /\ req'[r].pc # "sessCreate"

\* no PATCH /api/sessions/:id lands in this step
NoPatchStep == \A r \in Reqs : req[r].pc = "sessions.update" => req'[r].pc = "sessions.update"

\* what every step does to the session check and to the stored sessions: an
\* existing session gets no insert but a last_activity update for its id; the
\* insert is attempted only for a session the check did not find, before the
\* history is read; no session is ever deleted, no id is stored twice, and
\* except by PATCH only last_activity of a stored session changes
SessionSteps ==
  /\ \A r \in Reqs :
       /\ CheckStep(r) =>
            /\ sessions' = sessions
            /\ IF req'[r].pc = "sessCreate"
               THEN /\ touchQ' = touchQ
                    /\ ~req'[r].checkError => ~SessionExists(req[r].sessionId)
               ELSE /\ SessionExists(req[r].sessionId)
                    /\ touchQ' \ touchQ =
                         {[r |-> r, id |-> req[r].sessionId, at |-> Date(r)]}
       /\ CreateStep(r) =>
            /\ req[r].history = <<>> /\ ~req[r].historyOk
            /\ req'[r].pc = (IF Chat(r) THEN "history" ELSE "retrieve")
            /\ SessionExists(req[r].sessionId) => sessions' = sessions
            /\ sessions' # sessions => sessions' = sessions \cup {OwnSession(r)}
  /\ \A s \in sessions : \E s2 \in sessions' : s2.id = s.id
  /\ \A a, b \in sessions' : a.id = b.id => a = b
  /\ NoPatchStep =>
       \A s \in sessions : [s EXCEPT !.last_activity = 0] \in
                             {[s2 EXCEPT !.last_activity = 0] : s2 \in sessions'}

\* C18: a chat or search request whose session id is not in the store has a
\* session with that id, its own student id (or 'anonymous') and the mode of
\* its endpoint in the store once its insert has resolved, before history is
\* read; an existing session gets no second row and a last_activity update on
\* every such request, all other fields staying as they are; no session is
\* ever deleted.
C18_SessionEnsured ==
  [][ /\ SessionSteps
      /\ \A r \in Reqs :
           (CreateStep(r) /\ ~req[r].checkError /\ SessionExists(req[r].sessionId)') =>
             \E s \in sessions' : /\ s.id = req[r].sessionId
                                  /\ s.student_id = req[r].userId
                                  /\ s.mode = ModeOf(req[r])
    ]_vars

\* C18 (amended): as C18, but the session found in the store after the insert
\* resolved carries the request's student id and mode only if this request's
\* insert created it; when a concurrent request with the same id created it
\* first, the insert is rejected and the stored row stays as that request
\* wrote it.
C18_SessionEnsuredAmended ==
  [][ /\ SessionSteps
      /\ \A r \in Reqs :
           (CreateStep(r) /\ ~SessionExists(req[r].sessionId)
              /\ SessionExists(req[r].sessionId)') =>
             /\ OwnSession(r) \in sessions'
             /\ \A s \in sessions' : s.id = req[r].sessionId => s = OwnSession(r)
    ]_vars

C18_Witness ==
  \E r1, r2 \in Reqs :
    /\ r1 # r2
    /\ req[r1].endpoint \in {"chat", "search"} /\ Falsy(req[r1].provided)
    /\ OwnSession(r1) \in sessions
    /\ req[r2].endpoint \in {"chat", "search"} /\ req[r2].sessionId = "s1"
    /\ \E s \in sessions : s.id = "s1" /\ s.created_at = 0 /\ s.last_activity = Date(r2)

\* C19: for all input text and all 0 < overlap < chunkSize, every chunk the
\* chunkers produce, and so every chunk_text ingestion stores, is non-empty
\* after trimming whitespace and is at most chunkSize long.
C19_ChunksNonBlankBounded ==
  /\ \A i \in 1 .. Len(chunker.chunks) :
       /\ Trim(chunker.chunks[i]) # <<>>
       /\ Len(chunker.chunks[i]) <= chunker.chunkSize
  /\ \A i \in 1 .. Len(document_chunks) :
       /\ Trim(document_chunks[i].chunk_text) # <<>>
       /\ Len(document_chunks[i].chunk_text) <= chunker.chunkSize

\* the chunker has returned its chunks
Chunked == chunker.pc \in {"chunked", "stored", "failed"}

\* the input window of chunk k (0-based)
Window(k) ==
  Slice(chunker.text, k * (chunker.chunkSize - chunker.overlap),
        k * (chunker.chunkSize - chunker.overlap) + chunker.chunkSize)

\* C20: for all input text and all 0 < overlap < chunkSize, chunk k (0-based)
\* is taken from the input window starting at offset k*(chunkSize - overlap)
\* and is at most chunkSize long, only the final chunk may be shorter than
\* chunkSize, and the windows together cover every character of the input;
\* 2500 characters with chunkSize 800 and overlap 150 give exactly 4 chunks
\* starting at 0, 650, 1300 and 1950, the last of length 550.
C20_WindowLayout ==
  Chunked =>
    LET chunks == chunker.chunks
        n == Len(chunks)
        stride == chunker.chunkSize - chunker.overlap
    IN /\ \A k \in 0 .. n - 1 :
            /\ chunks[k + 1] \in {Window(k), Trim(Window(k))}
            /\ Len(chunks[k + 1]) <= chunker.chunkSize
       /\ \A k \in 0 .. n - 2 : Len(chunks[k + 1]) = chunker.chunkSize
       /\ \A p \in 0 .. Len(chunker.text) - 1 :
            \E k \in 0 .. n - 1 : k * stride <= p /\ p < k * stride + chunker.chunkSize
       /\ (chunker.text = LongText /\ chunker.chunkSize = CHUNK_SIZE
             /\ chunker.overlap = CHUNK_OVERLAP)
            => /\ n = 4
               /\ \A k \in 0 .. 3 : chunks[k + 1] = Slice(LongText, k * 650, k * 650 + 800)
               /\ Len(chunks[4]) = 550

\* the inputs chunkText must refuse
Degenerate(c) == c.text = <<>> \/ c.overlap >= c.chunkSize

\* C21: chunkText called with degenerate input (empty text, or overlap >=
\* chunkSize) fails with an invalid-chunking-configuration error instead of
\* looping: after the call is entered it neither evaluates its loop nor
\* returns chunks, it ends in the error.
C21_DegenerateInputFails ==
  Degenerate(chunker) =>
    \/ chunker.pc = "loop" /\ chunker.start = 0 /\ chunker.chunks = <<>>
    \/ chunker.pc = "InvalidChunkingConfig"

\* C25: DocumentService.chunkText terminates for every input text and every
\* 0 < overlap < chunkSize, also when a window is whitespace-only and gives no
\* chunk: no evaluation of its loop ends in the state it began in (the loop
\* is deterministic, so such an evaluation repeats for ever).
C25_ChunkTextTerminates ==
  (chunker.impl = "documentService" /\ chunker.pc = "loop"
     /\ 0 < chunker.overlap /\ chunker.overlap < chunker.chunkSize)
    => DocumentChunkTextStep(chunker) # chunker

\* C22: generateEmbeddings(texts) returns exactly one embedding per input
\* text, in input order, when every single embedding call succeeds, and fails
\* as a whole with no partial result when any single call fails, whatever the
\* order in which the parallel calls complete.
C22_BatchAllOrNothing ==
  /\ batch.pc = "returned" =>
       /\ \A i \in 1 .. Len(batch.calls) : batch.calls[i] # "rejected"
       /\ Len(batch.result) = Len(batch.texts)
       /\ \A i \in 1 .. Len(batch.texts) : batch.result[i] = Embed(batch.texts[i])
  /\ batch.pc = "thrown" =>
       /\ \E i \in 1 .. Len(batch.calls) : batch.calls[i] = "rejected"
       /\ batch.result = <<>>
  /\ (\E i \in 1 .. Len(batch.calls) : batch.calls[i] = "rejected") => batch.all = "rejected"
  /\ (batch.pc = "awaiting" /\ batch.texts # <<>>
        /\ \A i \in 1 .. Len(batch.calls) : batch.calls[i] = "fulfilled")
       => batch.all = "fulfilled" /\ batch.values = [i \in 1 .. Len(batch.texts) |-> Embed(batch.texts[i])]

\* a batch of three texts, the first two different, has been returned
C22_Witness ==
  /\ batch.pc = "returned" /\ Len(batch.texts) = MaxBatch
  /\ batch.texts[1] # batch.texts[2]

\* the chunks stored for the processed ones of the first n documents
RECURSIVE StoredOfProcessed(_, _)
StoredOfProcessed(objs, n) ==
  IF n = 0 THEN 0
  ELSE StoredOfProcessed(objs, n - 1) + (IF objs[n].pc = "ingested" THEN objs[n].stored ELSE 0)

\* the document being ingested is inside a chunkText call that does not return
NeverReturns ==
  /\ ingest.pc = "processing" /\ ingest.i <= Len(ingest.files)
  /\ Obj(ingest.i).pc = "chunkText"
  /\ RunDocumentChunkText(ChunkCall("documentService", Obj(ingest.i).text)).pc # "chunked"

\* C23: in a bulk ingestion a failure while ingesting one document never
\* keeps another document from being attempted and completed: no document is
\* attempted twice, none is left unattempted behind a document that cannot
\* finish, at the end every listed document has been attempted once, and the
\* result of processAndStoreDocuments has processed + failed = number of
\* files, one error entry per failed file and totalChunks = the chunks stored
\* for the processed files.
C23_IsolatedFailures ==
  /\ \A f \in 1 .. Len(ingest.objs) : Obj(f).attempts <= 1
  /\ ingest.pc \in {"complete", "returned"} =>
       \A f \in 1 .. Len(ingest.objs) : Obj(f).attempts = 1 /\ Settled(Obj(f))
  /\ ingest.pc = "returned" =>
       /\ ingest.results.processed + ingest.results.failed = Len(ingest.files)
       /\ Len(ingest.results.errors) = ingest.results.failed
       /\ \A f \in 1 .. Len(ingest.files) :
            Cardinality({e \in 1 .. Len(ingest.results.errors) :
                           ingest.results.errors[e].file = ingest.files[f]})
              = (IF Obj(f).pc = "failed" THEN 1 ELSE 0)
       /\ ingest.results.totalChunks = StoredOfProcessed(ingest.objs, Len(ingest.objs))
  /\ ~ (NeverReturns /\ \E f \in 1 .. Len(ingest.objs) : Obj(f).attempts = 0)

\* C24: for every chunk stored through the document-processing path
\* (processDocument, then storeDocumentChunks) the embedding stored with the
\* chunk is the embedding computed from that chunk's own text; the rows
\* ingestObject stores are held to the same.
C24_EmbeddingOfOwnText ==
  \A k \in 1 .. Len(document_chunks) :
    document_chunks[k].embedding = Embed(document_chunks[k].chunk_text)

\* every document of the ingestion has been stored in full
FullyIngested(f) == Obj(f).pc = "ingested"

\* the chunk indices stored under a document name
IndicesOf(name) ==
  { document_chunks[k].chunk_index :
      k \in { j \in 1 .. Len(document_chunks) : document_chunks[j].document_name = name } }

\* C30: in every reachable state of the document store no two stored chunks
\* with the same document_name have the same chunk_index, and the indices
\* stored for a fully ingested document are exactly 0..n-1, also after a
\* document is ingested more than once or an ingestion fails part-way.
C30_ChunkIndexUnique ==
  /\ \A j, k \in 1 .. Len(document_chunks) :
       (j # k /\ document_chunks[j].document_name = document_chunks[k].document_name)
         => document_chunks[j].chunk_index # document_chunks[k].chunk_index
  /\ \A f \in 1 .. Len(ingest.objs) :
       FullyIngested(f) => IndicesOf(ingest.files[f]) = 0 .. Len(Obj(f).chunks) - 1

\* every handler has answered and every un-awaited datastore call has landed
AllSettled ==
  /\ \A r \in Reqs : req[r].pc = "done"
  /\ archiveQ = {} /\ touchQ = {}

\* the requests all carried a message and the id of the session "s1"
AllOnS1 == \A r \in Reqs : req[r].provided = "s1" /\ req[r].message # NoMsg

\* the interaction of request r is stored under its session
Archived(r) ==
  \E i \in 1 .. Len(interactions) :
    /\ interactions[i].session_id = req[r].sessionId
    /\ interactions[i].user_message = req[r].message
    /\ interactions[i].assistant_response = req[r].fullResponse

\* C26: when chat/search requests carrying the same not-yet-existing session
\* id run concurrently, then in every interleaving of their check, insert,
\* history-read and archive steps exactly one session row with that id exists
\* afterwards, every request completes its response, and every interaction
\* ends up archived under that session.
C26_ConcurrentSameSession ==
  /\ \A s, t \in sessions : s.id = t.id => s = t
  /\ (AllSettled /\ AllOnS1) =>
       /\ Cardinality({s \in sessions : s.id = "s1"}) = 1
       /\ \A r \in Reqs :
            /\ req[r].ended /\ req[r].wireStatus = 200 /\ ~req[r].errNext
            /\ Archived(r)

\* the requests ran through the insert step together: the row of "s1" exists,
\* no request found it (last_activity was never touched), all are archived
C26_Witness ==
  /\ AllSettled /\ AllOnS1
  /\ \E s \in sessions : s.id = "s1" /\ s.last_activity = s.created_at
  /\ \A r \in Reqs : Archived(r)
  /\ \E r \in Reqs : req[r].endpoint = "chat" /\ Len(req[r].fullResponse) > 0

\* C27: in every reachable state each stored interaction's session_id refers
\* to an existing session row: an archive insert succeeds only after the
\* session with that id has been persisted, also when the session
\* auto-create failed or is racing with another request (the insert then
\* fails and is only logged).
C27_InteractionHasSession ==
  \A i \in 1 .. Len(interactions) : SessionExists(interactions[i].session_id)

\* a request whose session was never persisted has answered 200, its archive
\* insert failed and was logged, while another interaction is stored
C27_Witness ==
  /\ \E r \in Reqs :
       /\ req[r].pc = "done" /\ req[r].archiveIssued /\ req[r].wireStatus = 200
       /\ ~SessionExists(req[r].sessionId)
       /\ <<"archiveFailed", r>> \in log
  /\ \E i \in 1 .. Len(interactions) : interactions[i].user_message \in {MsgOf(r) : r \in Reqs}

\* the message list request q hands to the LLM, built from what retrieval
\* returned
Assembled(q) ==
  q.messages = IF q.endpoint = "chat"
               THEN BuildMessages(q.chunks, FlatMapHistory(q.history), q.message)
               ELSE BuildSearchMessages(q.chunks, q.message)

\* C28: within one chat or search request the steps are strictly sequential:
\* retrieval has returned (or failed) before the system prompt and message
\* list are built, the message list is fully built before the LLM call is
\* issued, and the archive insert is issued only after the last fragment of
\* the response has been accumulated.
C28_StepsSequential ==
  /\ \A r \in Reqs :
       LET q == req[r]
       IN /\ q.pc \in {"sessCheck", "sessCreate", "history", "retrieve"} =>
               /\ q.messages = <<>> /\ q.llmCalls = 0
               /\ q.fullResponse = <<>> /\ ~q.archiveIssued
          /\ q.retrievalFailed => (q.messages = <<>> /\ q.llmCalls = 0 /\ ~q.archiveIssued)
          /\ q.llmCalls > 0 =>
               /\ q.pc \in {"llm", "stream", "done"}
               /\ q.messages # <<>> /\ Assembled(q)
               /\ q.embedCalls > 0 => q.rpcCalls > 0
          /\ q.pc = "llm" => (q.fullResponse = <<>> /\ ~q.archiveIssued)
          /\ q.pc = "stream" => ~q.archiveIssued
          /\ q.archiveIssued => (q.pc = "done" /\ q.llmCalls > 0 /\ q.ended)
  /\ \A op \in archiveQ :
       /\ req[op.r].archiveIssued
       /\ op.row.assistant_response = req[op.r].fullResponse
       /\ op.row.retrieved_chunk_ids = req[op.r].chunks

\* a chat request has retrieved chunks, streamed every fragment and issued
\* its archive insert, which is still pending
C28_Witness ==
  \E op \in archiveQ :
    /\ req[op.r].endpoint = "chat" /\ req[op.r].rpcCalls > 0
    /\ req[op.r].chunks # <<>>
    /\ Len(op.row.assistant_response) = MaxFrags

\* the state of the generation of request q: Requested from the call of
\* llmService.chat, Streaming from the first fragment, Completed when the
\* stream has ended, Failed when the call or the stream has thrown
Generation(q) ==
  IF q.endpoint # "chat" \/ q.llmCalls = 0 THEN "Idle"
  ELSE IF q.llmFailed THEN "Failed"
  ELSE IF q.pc = "done" THEN "Completed"
  ELSE IF q.fullResponse = <<>> THEN "Requested"
  ELSE "Streaming"

\* an output that ends before any fragment completes from Requested
GenerationSteps ==
  { <<"Idle", "Requested">>, <<"Requested", "Streaming">>, <<"Streaming", "Completed">>,
    <<"Requested", "Completed">>, <<"Requested", "Failed">> }

\* C29: the generation of each chat request follows only the transitions
\* Idle -> Requested -> Streaming -> Completed or Idle -> Requested -> Failed:
\* Streaming is entered with the first fragment, Completed only when the
\* model signals end-of-output, and Failed is never entered once Streaming
\* has been reached.
C29_GenerationStateMachine ==
  [][\A r \in Reqs :
       \/ Generation(req'[r]) = Generation(req[r])
       \/ <<Generation(req[r]), Generation(req'[r])>> \in GenerationSteps]_vars

====
